---- MODULE Spec2Model ----
(***************************************************************************)
(* A model of the shimmer image-to-sound engine: the granular engine's     *)
(* grain-slot pool (GranularEngine), the per-layer synthesizer             *)
(* (AudioLayerNode), the frame scheduler (animationLoop.ts startLoop.tick),*)
(* the layer store (useSonimageStore) and the transport handlers.          *)
(*                                                                         *)
(* Time is counted in units of 1/SecUnits second, gains in units of        *)
(* 1/GainOne; both are exact, so the rounding of the doubles the code      *)
(* computes with is outside the model.                                     *)
(***************************************************************************)
EXTENDS Integers, Sequences, FiniteSets, TLC

\* ------------------------------------------------------------------ bounds
MaxTicks == 3
MaxCallbacks == 2
MaxResets == 1
MaxEndSlot == 1
MaxNodeOps == 4
MaxEdits == 4
MaxFrames == 2
MaxFxOps == 4

\* ------------------------------------------------------- program constants
MAX_GRAINS == 32
NUM_BINS == 24

\* ------------------------------------------------------------------- units
SecUnits == 8 * 5
GainOne == 24 * 10000
PerMille == 10 * 100

Min(a, b) == IF a < b THEN a ELSE b
Max(a, b) == IF a > b THEN a ELSE b

VARIABLES granular, ghist, node, nhist, clock,
          store, audioNodeMap, engineMaster, lastProfileId, layerModeCache,
          inflight, lhist, effects, fxhist, image, analysed, tone, window, trig

vars == <<granular, ghist, node, nhist, clock,
          store, audioNodeMap, engineMaster, lastProfileId, layerModeCache,
          inflight, lhist, effects, fxhist, image, analysed, tone, window, trig>>

\* The variables of the granular engine, of the layer synthesizer and of the
\* application (store, node map, frame loop); a specification that drives one of
\* the three leaves the variables of the other two alone.
nodeVars == <<node, nhist, clock>>
granularVars == <<granular, ghist>>
fxVars == <<effects, fxhist>>
analyzerVars == <<image, analysed>>
pureVars == <<tone, window, trig>>
loopVars == <<store, audioNodeMap, engineMaster, lastProfileId, layerModeCache,
              inflight, lhist>>

\* ============================================================= GranularEngine

\* grainDensity values (grains/sec, documented range 1-80) and frame deltas
\* (in time units) the ticks are called with.
Densities == {10, 40}
TickDts == {1, 40}

\* A slot as the constructor leaves it: gain 0, not busy, no source.
IdleSlot == [busy |-> FALSE, source |-> 0, gain |-> 0]

\* new GranularEngine(context, destination)
NewEngine ==
  [active |-> TRUE, buffer |-> FALSE, grainTimer |-> 0,
   slots |-> [i \in 1..MAX_GRAINS |-> IdleSlot],
   grains |-> {}, connected |-> TRUE]

\* The first slot whose busy flag is clear, 0 (null) when every slot is busy.
GetFreeSlotFirstButOne(slots) ==
  LET free == {i \in 2..MAX_GRAINS : ~slots[i].busy}
  IN IF free = {} THEN 0 ELSE CHOOSE i \in free : \A j \in free : i <= j

GetFreeSlot(slots) ==
  LET free == {i \in 1..MAX_GRAINS : ~slots[i].busy}
  IN IF free = {} THEN 0 ELSE CHOOSE i \in free : \A j \in free : i <= j

\* A name for the buffer source a grain creates: the least number no un-ended
\* source started on the same slot carries.
NewSource(grains, s) ==
  LET used == {g.gen : g \in {h \in grains : h.slot = s}}
  IN CHOOSE n \in 1..(Cardinality(used) + 1) : n \notin used

\* fireGrain: no buffer or no free slot drops the grain; otherwise the slot is
\* marked busy, holds the new source, and the source plays until its onended.
FireGrain(e) ==
  IF ~e.buffer THEN e
  ELSE LET s == GetFreeSlot(e.slots)
       IN IF s = 0 THEN e
          ELSE LET n == NewSource(e.grains, s)
               IN [e EXCEPT !.slots[s] = [busy |-> TRUE, source |-> n, gain |-> 1],
                            !.grains = @ \cup {[slot |-> s, gen |-> n, playing |-> TRUE]}]

\* 1 / Math.max(1, params.grainDensity), in time units.
Interval(d) == SecUnits \div Max(1, d)

RECURSIVE FireLoop(_, _)
FireLoop(e, interval) ==
  IF e.grainTimer >= interval
  THEN FireLoop(FireGrain([e EXCEPT !.grainTimer = @ - interval]), interval)
  ELSE e

\* A tick that fires at most one grain and keeps the rest of the time.
TickOnce(e, d, dt) ==
  IF ~e.active \/ ~e.buffer THEN e
  ELSE LET f == [e EXCEPT !.grainTimer = @ + dt]
       IN IF f.grainTimer >= Interval(d)
          THEN FireGrain([f EXCEPT !.grainTimer = @ - Interval(d)])
          ELSE f

\* tick(params, dt)
Tick(e, d, dt) ==
  IF ~e.active \/ ~e.buffer THEN e
  ELSE FireLoop([e EXCEPT !.grainTimer = @ + dt], Interval(d))

\* stopAllGrains: every slot's source (if it holds one) is stopped, every slot
\* is released; the stopped source's onended is still to be delivered.
StopAllGrains(e) ==
  [e EXCEPT !.slots = [i \in 1..MAX_GRAINS |-> IdleSlot],
            !.grains = {IF g.gen = e.slots[g.slot].source
                        THEN [g EXCEPT !.playing = FALSE] ELSE g : g \in @},
            !.grainTimer = 0]

Reset(e) == [StopAllGrains(e) EXCEPT !.grainTimer = 0]

ClearBuffer(e) == StopAllGrains([e EXCEPT !.buffer = FALSE])

SetBuffer(e) == [e EXCEPT !.buffer = TRUE]

EngineDisconnect(e) ==
  [StopAllGrains([e EXCEPT !.active = FALSE]) EXCEPT !.connected = FALSE]

\* A completion callback that forgets the grain and leaves its slot as it is.
OnEndedKeepsSlot(e, g) == [e EXCEPT !.grains = @ \ {g}]

\* source.onended of grain g: the closure's slot is cleared, whatever it holds.
OnEnded(e, g) ==
  [e EXCEPT !.slots[g.slot] = IdleSlot, !.grains = @ \ {g}]

FreeCount(e) == Cardinality({i \in 1..MAX_GRAINS : ~e.slots[i].busy})

\* ================================================================= AudioParam
\* The automation of an AudioParam (Web Audio): the events scheduled on it, in
\* time order; an event is [k |-> kind, v |-> value, t |-> time].  Events that
\* precede a "set" event no longer decide the parameter from that time on and
\* are dropped; so is a setTarget event once a later setTarget replaces it (how
\* far an approach has come is not computed, time constants are left out).

\* createGain() followed by gain.setValueAtTime(x, t)
ParamAt(x, t) == <<[k |-> "set", v |-> x, t |-> t]>>

\* cancelScheduledValues(now): the events at or after now are removed.
CancelScheduledValues(p, now) ==
  LET Before(e) == e.t < now IN SelectSeq(p, Before)

InsertEvent(p, e) ==
  LET NotAfter(f) == f.t <= e.t
      After(f) == f.t > e.t
  IN SelectSeq(p, NotAfter) \o <<e>> \o SelectSeq(p, After)

SetValueAtTime(p, x, t) ==
  LET After(f) == f.t > t
  IN <<[k |-> "set", v |-> x, t |-> t]>> \o SelectSeq(p, After)

SetTargetAtTime(p, x, t) ==
  LET Kept(f) == ~(f.k = "target" /\ f.t <= t)
  IN InsertEvent(SelectSeq(p, Kept), [k |-> "target", v |-> x, t |-> t])

LinearRampToValueAtTime(p, x, t) == InsertEvent(p, [k |-> "linear", v |-> x, t |-> t])

ExponentialRampToValueAtTime(p, x, t) ==
  InsertEvent(p, [k |-> "exponential", v |-> x, t |-> t])

\* cancelScheduledValues(now); setValueAtTime(x, now)
CancelAndSet(p, x, now) == SetValueAtTime(CancelScheduledValues(p, now), x, now)

\* cancelScheduledValues(now); setTargetAtTime(x, now, tc)
CancelAndTarget(p, x, now) == SetTargetAtTime(CancelScheduledValues(p, now), x, now)

\* The parameter is x and nothing scheduled will move it.
HeldAt(p, x) == Len(p) = 1 /\ p[1].k = "set" /\ p[1].v = x

\* The value the scheduled events leave the parameter at.
Heading(p) == p[Len(p)].v

\* ================================================================ EffectsChain
\* Effect settings (LayerEffects) and the chain's parameters are integers: mixes,
\* feedback and gains in 1/PerMille, reverb decay in 1/DecayOne second, delay
\* time in milliseconds, LFO rates in millihertz, LFO depths in microseconds, EQ
\* gains in dB, frequencies in Hz, and the distortion amount as it is.
DecayOne == 10 * 10

\* const ramp = 0.05 (seconds), in time units
FxRamp == SecUnits \div 20

\* The threshold of the impulse-response cache, 0.05 s, in 1/DecayOne second.
DecayStep == DecayOne \div 20

\* lastReverbDecay = -1: no impulse response is cached.
NoDecay == 0 - DecayOne

\* defaultEffects
DefaultEffects ==
  [reverbEnabled |-> FALSE, reverbMix |-> 300, reverbDecay |-> 200,
   delayEnabled |-> FALSE, delayTime |-> 300, delayFeedback |-> 400, delayMix |-> 400,
   distortionEnabled |-> FALSE, distortionAmount |-> 100,
   flangerEnabled |-> FALSE, flangerRate |-> 500, flangerDepth |-> 4000,
   flangerMix |-> 500,
   chorusEnabled |-> FALSE, chorusRate |-> 1500, chorusDepth |-> 8000, chorusMix |-> 500,
   eqEnabled |-> FALSE, eqLowGain |-> 0, eqMidGain |-> 0, eqHighGain |-> 0,
   eqMidFreq |-> 1000]

\* reverbNode.buffer before any impulse response was made (null).
NoBuffer == [length |-> 0, build |-> 0]

\* makeImpulseResponse(decay), the build-th buffer this chain makes: its length
\* is sampleRate * max(0.1, decay) (here in 1/DecayOne second) and its samples
\* are drawn from Math.random, so no two builds give the same buffer.
MakeImpulseResponse(decay, build) ==
  [length |-> Max(DecayOne \div 10, decay), build |-> build]

\* makeDistortionCurve(amount): the curve is a function of the amount alone.
MakeDistortionCurve(amount) == [k |-> amount]

\* distortionNode.curve before any curve was made (null).
NoCurve == [k |-> 0 - 1]

\* new EffectsChain(context), constructed at audio time now.
NewEffectsChain(now) ==
  [distortionCurve |-> NoCurve,
   distortionWet |-> ParamAt(0, now), distortionBypass |-> ParamAt(PerMille, now),
   eqLowGain |-> ParamAt(0, now), eqMidGain |-> ParamAt(0, now),
   eqHighGain |-> ParamAt(0, now), eqMidFreq |-> ParamAt(1000, now),
   eqWet |-> ParamAt(0, now), eqBypass |-> ParamAt(PerMille, now),
   flangerRate |-> ParamAt(500, now), flangerDepth |-> ParamAt(3000, now),
   flangerWet |-> ParamAt(0, now), flangerBypass |-> ParamAt(PerMille, now),
   chorusRate |-> ParamAt(1500, now), chorusDepth |-> ParamAt(6000, now),
   chorusWet |-> ParamAt(0, now), chorusBypass |-> ParamAt(PerMille, now),
   delayTime |-> ParamAt(300, now), delayFeedback |-> ParamAt(400, now),
   delayWet |-> ParamAt(0, now), delayDry |-> ParamAt(PerMille, now),
   reverbBuffer |-> NoBuffer, builds |-> 0,
   reverbWet |-> ParamAt(0, now), reverbDry |-> ParamAt(PerMille, now),
   lastReverbDecay |-> NoDecay,
   lfoStopped |-> FALSE, wired |-> TRUE]

\* applyEffects, the distortion section
ApplyDistortion(c, fx, at) ==
  IF fx.distortionEnabled
  THEN [c EXCEPT !.distortionCurve = MakeDistortionCurve(fx.distortionAmount),
                 !.distortionWet = LinearRampToValueAtTime(@, PerMille, at),
                 !.distortionBypass = LinearRampToValueAtTime(@, 0, at)]
  ELSE [c EXCEPT !.distortionWet = LinearRampToValueAtTime(@, 0, at),
                 !.distortionBypass = LinearRampToValueAtTime(@, PerMille, at)]

\* applyEffects, the EQ section
ApplyEq(c, fx, at) ==
  IF fx.eqEnabled
  THEN [c EXCEPT !.eqLowGain = LinearRampToValueAtTime(@, fx.eqLowGain, at),
                 !.eqMidGain = LinearRampToValueAtTime(@, fx.eqMidGain, at),
                 !.eqMidFreq = LinearRampToValueAtTime(@, fx.eqMidFreq, at),
                 !.eqHighGain = LinearRampToValueAtTime(@, fx.eqHighGain, at),
                 !.eqWet = LinearRampToValueAtTime(@, PerMille, at),
                 !.eqBypass = LinearRampToValueAtTime(@, 0, at)]
  ELSE [c EXCEPT !.eqWet = LinearRampToValueAtTime(@, 0, at),
                 !.eqBypass = LinearRampToValueAtTime(@, PerMille, at)]

\* The flanger section with the wet and bypass gains switched fully over.
ApplyFlangerSwitched(c, fx, at) ==
  LET on == fx.flangerEnabled
  IN [c EXCEPT
        !.flangerRate = LinearRampToValueAtTime(@, fx.flangerRate, at),
        !.flangerDepth = LinearRampToValueAtTime(@, fx.flangerDepth, at),
        !.flangerWet = LinearRampToValueAtTime(@, IF on THEN PerMille ELSE 0, at),
        !.flangerBypass = LinearRampToValueAtTime(@, IF on THEN 0 ELSE PerMille, at)]

\* applyEffects, the flanger section
ApplyFlanger(c, fx, at) ==
  LET on == fx.flangerEnabled
  IN [c EXCEPT
        !.flangerRate = LinearRampToValueAtTime(@, fx.flangerRate, at),
        !.flangerDepth = LinearRampToValueAtTime(@, fx.flangerDepth, at),
        !.flangerWet = LinearRampToValueAtTime(@, IF on THEN fx.flangerMix ELSE 0, at),
        !.flangerBypass =
           LinearRampToValueAtTime(@, IF on THEN PerMille - fx.flangerMix ELSE PerMille, at)]

\* applyEffects, the chorus section
ApplyChorus(c, fx, at) ==
  LET on == fx.chorusEnabled
  IN [c EXCEPT
        !.chorusRate = LinearRampToValueAtTime(@, fx.chorusRate, at),
        !.chorusDepth = LinearRampToValueAtTime(@, fx.chorusDepth, at),
        !.chorusWet = LinearRampToValueAtTime(@, IF on THEN fx.chorusMix ELSE 0, at),
        !.chorusBypass =
           LinearRampToValueAtTime(@, IF on THEN PerMille - fx.chorusMix ELSE PerMille, at)]

\* The delay section with the dry gain faded against the mix.
ApplyDelayDryFades(c, fx, at) ==
  [c EXCEPT
     !.delayTime = LinearRampToValueAtTime(@, fx.delayTime, at),
     !.delayFeedback = LinearRampToValueAtTime(@, fx.delayFeedback, at),
     !.delayWet = LinearRampToValueAtTime(@, IF fx.delayEnabled THEN fx.delayMix ELSE 0, at),
     !.delayDry = LinearRampToValueAtTime(@, IF fx.delayEnabled THEN PerMille - fx.delayMix
                                             ELSE PerMille, at)]

\* applyEffects, the delay section
ApplyDelay(c, fx, at) ==
  [c EXCEPT
     !.delayTime = LinearRampToValueAtTime(@, fx.delayTime, at),
     !.delayFeedback = LinearRampToValueAtTime(@, fx.delayFeedback, at),
     !.delayWet = LinearRampToValueAtTime(@, IF fx.delayEnabled THEN fx.delayMix ELSE 0, at),
     !.delayDry = LinearRampToValueAtTime(@, PerMille, at)]

\* The comparison without its threshold: any difference counts.
DecayChanged(decay, last) == decay # last

\* Math.abs(fx.reverbDecay - this.lastReverbDecay) > 0.05
DecayMoved(decay, last) ==
  (IF decay >= last THEN decay - last ELSE last - decay) > DecayStep

\* The reverb section without the cache: every enabled call builds a response.
ApplyReverbAlwaysBuilds(c, fx, at) ==
  IF fx.reverbEnabled
  THEN [c EXCEPT
          !.reverbBuffer = MakeImpulseResponse(fx.reverbDecay, c.builds + 1),
          !.builds = @ + 1,
          !.lastReverbDecay = fx.reverbDecay,
          !.reverbWet = LinearRampToValueAtTime(@, fx.reverbMix, at),
          !.reverbDry = LinearRampToValueAtTime(@, PerMille - fx.reverbMix \div 2, at)]
  ELSE [c EXCEPT !.reverbWet = LinearRampToValueAtTime(@, 0, at),
                 !.reverbDry = LinearRampToValueAtTime(@, PerMille, at),
                 !.lastReverbDecay = NoDecay]

\* The reverb section with the wet gain left alone when reverb is switched off.
ApplyReverbWetKept(c, fx, at) ==
  IF fx.reverbEnabled
  THEN LET rebuild == DecayMoved(fx.reverbDecay, c.lastReverbDecay)
       IN [c EXCEPT
             !.reverbBuffer = IF rebuild
                              THEN MakeImpulseResponse(fx.reverbDecay, c.builds + 1)
                              ELSE @,
             !.builds = IF rebuild THEN @ + 1 ELSE @,
             !.lastReverbDecay = IF rebuild THEN fx.reverbDecay ELSE @,
             !.reverbWet = LinearRampToValueAtTime(@, fx.reverbMix, at),
             !.reverbDry = LinearRampToValueAtTime(@, PerMille - fx.reverbMix \div 2, at)]
  ELSE [c EXCEPT !.reverbDry = LinearRampToValueAtTime(@, PerMille, at),
                 !.lastReverbDecay = NoDecay]

\* applyEffects, the reverb section
ApplyReverb(c, fx, at) ==
  IF fx.reverbEnabled
  THEN LET rebuild == DecayMoved(fx.reverbDecay, c.lastReverbDecay)
       IN [c EXCEPT
             !.reverbBuffer = IF rebuild
                              THEN MakeImpulseResponse(fx.reverbDecay, c.builds + 1)
                              ELSE @,
             !.builds = IF rebuild THEN @ + 1 ELSE @,
             !.lastReverbDecay = IF rebuild THEN fx.reverbDecay ELSE @,
             !.reverbWet = LinearRampToValueAtTime(@, fx.reverbMix, at),
             !.reverbDry = LinearRampToValueAtTime(@, PerMille - fx.reverbMix \div 2, at)]
  ELSE [c EXCEPT !.reverbWet = LinearRampToValueAtTime(@, 0, at),
                 !.reverbDry = LinearRampToValueAtTime(@, PerMille, at),
                 !.lastReverbDecay = NoDecay]

\* applyEffects(fx) at audio time now
ApplyEffects(c, fx, now) ==
  LET at == now + FxRamp
  IN ApplyReverb(ApplyDelay(ApplyChorus(ApplyFlanger(ApplyEq(
       ApplyDistortion(c, fx, at), fx, at), fx, at), fx, at), fx, at), fx, at)

\* EffectsChain.disconnect(): both LFOs stop, input and output are unwired.
EffectsDisconnect(c) == [c EXCEPT !.lfoStopped = TRUE, !.wired = FALSE]

\* EffectsChain.disconnect() when flangerLFO.stop() throws (an oscillator that
\* was already stopped, on an engine that rejects a second stop): the catch
\* swallows the error and the statements after it in the try block are skipped.
EffectsDisconnectThrown(c) == c

\* ============================================================== AudioLayerNode
Bins == 1..NUM_BINS

\* BIN_CEIL = 1.0 / NUM_BINS, and the 0.0001 the envelopes decay to
BIN_CEIL == GainOne \div NUM_BINS
NearZero == GainOne \div 10000

Abs(x) == IF x < 0 THEN -x ELSE x
Sign(x) == IF x > 0 THEN 1 ELSE IF x < 0 THEN -1 ELSE 0

\* a * f for a factor f given in thousandths
Mul(a, f) == (a * f) \div PerMille

\* maxRate * dt, for a rate in thousandths of full scale per second
MaxDelta(rate, dt) == (rate * dt * (GainOne \div PerMille)) \div SecUnits

\* slew(current, target, maxRate, dt)
Slew(current, target, maxRate, dt) ==
  IF Abs(target - current) < MaxDelta(maxRate, dt)
  THEN target
  ELSE current + Sign(target - current) * MaxDelta(maxRate, dt)

\* slewBins without the limit: every bin jumps to its target.
SlewBinsUnlimited(current, target, rate, dt) ==
  [i \in Bins |-> current[i] + (target[i] - current[i])]

\* slewBins(current, target, rate, dt)
SlewBins(current, target, rate, dt) ==
  [i \in Bins |-> current[i] + Sign(target[i] - current[i])
                                * Min(Abs(target[i] - current[i]), MaxDelta(rate, dt))]


\* ------------------------------------------------------------------ ModeParams
\* The mode parameters a synthesizer is given: one representative record per
\* archetype, with the defaults of tuneParams (imageAnalyzer.ts) and a
\* bin-weight curve of the archetype's shape.  Curve weights, thresholds, output
\* gain, smoothing rate and colour balance are in thousandths; times in time
\* units; tuning is the root (Hz, and the semitones it is moved by) and the scale
\* the oscillators are retuned to (rootHz, scaleRatios).
Archetypes == {"tonal", "rhythmic", "textural", "sub", "spectral", "chromatic_noise"}

\* makeLowCurve(2), makeHighCurve(1), makeBandCurve(0.5, 0.35), makeUniformCurve
\* and makePeakedCurve, for the zero-based bin i
LowCurve(i) == ((NUM_BINS - i) * (NUM_BINS - i) * PerMille) \div (NUM_BINS * NUM_BINS)
HighCurve(i) == (i * PerMille) \div NUM_BINS
BandCurve(i) == Max(0, PerMille - (Abs(i - 12) * 10 * PerMille) \div 84)
PeakAt(dist) ==
  IF dist = 0 THEN 1000 ELSE IF dist = 1 THEN 607 ELSE IF dist = 2 THEN 368
  ELSE IF dist = 3 THEN 223 ELSE IF dist = 4 THEN 135 ELSE 100
PeakedCurve(i) ==
  LET d == {Abs(i - b) : b \in {2, 7, 12, 16, 21}}
  IN PeakAt(CHOOSE x \in d : \A y \in d : x <= y)

\* the sub curve: low-biased, zero from bin activeBins (here 5) on
SubCurve(i) == IF i >= 5 THEN 0 ELSE LowCurve(i)

BinWeightCurve(a) ==
  [i \in Bins |->
     CASE a = "tonal" -> LowCurve(i - 1)
       [] a = "rhythmic" -> BandCurve(i - 1)
       [] a = "textural" -> HighCurve(i - 1)
       [] a = "sub" -> SubCurve(i - 1)
       [] a = "spectral" -> PerMille
       [] OTHER -> PeakedCurve(i - 1)]

ModeParams(a) ==
  [archetype |-> a,
   tuning |-> <<110, 0, "major">>,
   binWeightCurve |-> BinWeightCurve(a),
   spectralSmoothing |-> 3 * PerMille,
   attackTime |-> 2,
   releaseTime |-> 12,
   triggerThreshold |-> 200,
   grainDensity |-> 20,
   grainWidth |-> 3,
   colorChannelBalance |-> <<330, 340, 330>>,
   outputGain |-> IF a = "sub" THEN 900 ELSE 800]

\* currentParams before any setModeParams (null)
NoParams == [archetype |-> "null"]

\* ----------------------------------------------------------------- PixelSample
\* The pixel samples a frame hands to updateFromPixel: brightness and r, g, b in
\* 0..255, hue in degrees, saturation, edgeDensity, contrast and rowVariance in
\* thousandths, spectrumBins in gain units.
SampleDark ==
  [brightness |-> 0, hue |-> 0, saturation |-> 0, edgeDensity |-> 0,
   r |-> 0, g |-> 0, b |-> 0, contrast |-> 0,
   spectrumBins |-> [i \in Bins |-> 0], rowVariance |-> [i \in Bins |-> 0]]

SampleBright ==
  [brightness |-> 255, hue |-> 40, saturation |-> 800, edgeDensity |-> 600,
   r |-> 255, g |-> 230, b |-> 200, contrast |-> 700,
   spectrumBins |-> [i \in Bins |-> GainOne],
   rowVariance |-> [i \in Bins |-> PerMille]]

SampleMid ==
  [brightness |-> 128, hue |-> 200, saturation |-> 300, edgeDensity |-> 100,
   r |-> 100, g |-> 128, b |-> 160, contrast |-> 100,
   spectrumBins |-> [i \in Bins |-> IF i <= 12 THEN GainOne \div 2 ELSE GainOne \div 8],
   rowVariance |-> [i \in Bins |-> IF i <= 12 THEN 500 ELSE 0]]

\* ------------------------------------------------------------------- the node
\* new AudioLayerNode(context, destination), constructed at audio time now.
\* granular is meaningful only while hasGranular (else this.granular is null).
\* sampleSource: this.sampleSource is not null; sourcePlaying: that source is
\* started and not stopped; strayLoops: the looping sources started and not
\* stopped that this.sampleSource no longer refers to.
NewNode(now) ==
  [connected |-> TRUE, lastDt |-> 0, currentParams |-> NoParams,
   masterGain |-> ParamAt(0, now),
   specMixGate |-> ParamAt(GainOne, now),
   mangleSend |-> ParamAt(0, now),
   mangleReturn |-> ParamAt(0, now),
   specGains |-> [i \in Bins |-> ParamAt(0, now)],
   sampleGain |-> ParamAt(0, now),
   sampleModeGain |-> ParamAt(0, now),
   sampleMangleSend |-> ParamAt(0, now),
   sampleFilterType |-> "allpass",
   smoothedBins |-> [i \in Bins |-> 0],
   sampleModeLevel |-> 0, grainTimer |-> 0, lastTriggerTime |-> 0,
   sampleSource |-> FALSE, sampleBuffer |-> FALSE,
   sourcePlaying |-> FALSE, strayLoops |-> 0,
   hasGranular |-> FALSE, granular |-> NewEngine,
   granularScanPos |-> 0, pitchSemitones |-> 0,
   tuning |-> <<110, 0, "pentatonic">>,
   oscStopped |-> FALSE, wired |-> TRUE]

\* silenceAllBins without the cancelScheduledValues
SilenceAllBinsNoCancel(n, now) ==
  [n EXCEPT !.specGains = [i \in Bins |-> InsertEvent(@[i], [k |-> "set", v |-> 0, t |-> now])]]

\* silenceAllBins(now)
SilenceAllBins(n, now) ==
  [n EXCEPT !.specGains = [i \in Bins |-> CancelAndSet(@[i], 0, now)]]

\* 0.15 + rowVariance[i] * 0.85
VarW(sample, i) == 150 + (sample.rowVariance[i] * 850) \div PerMille

\* writeBins without the ceiling on the target.
WriteBinsNoCeiling(n, bins, p, volume, now, sample) ==
  [n EXCEPT !.specGains = [i \in Bins |->
     CancelAndTarget(@[i],
        Mul(Mul(Mul(Mul(bins[i], p.binWeightCurve[i]), VarW(sample, i)), volume),
            p.outputGain),
        now)]]

\* writeBins(bins, params, volume, now, timeConstant, rowVariance)
WriteBins(n, bins, p, volume, now, sample) ==
  [n EXCEPT !.specGains = [i \in Bins |->
     CancelAndTarget(@[i],
        Min(Mul(Mul(Mul(Mul(bins[i], p.binWeightCurve[i]), VarW(sample, i)), volume),
                p.outputGain),
            BIN_CEIL),
        now)]]

\* meanBinAmplitude()
MeanBinAmplitude(n) ==
  LET RECURSIVE Sum(_)
      Sum(i) == IF i = 0 THEN 0 ELSE n.smoothedBins[i] + Sum(i - 1)
  IN Sum(NUM_BINS) \div NUM_BINS

\* setImageProfile(profile): the oscillators are retuned to the profile's root
\* and scale
SetImageProfile(n, profile) == [n EXCEPT !.tuning = profile]

\* setPitchSemitones(semitones)
SetPitchSemitones(n, semitones) == [n EXCEPT !.pitchSemitones = semitones]

\* The looping sources that are playing.
LoopSources(n) == (IF n.sourcePlaying THEN 1 ELSE 0) + n.strayLoops

\* _initSampleRouting() without the stop of the existing looping source.
InitSampleRoutingKeepsSource(n, now) ==
  IF ~n.sampleBuffer THEN n
  ELSE LET a == IF n.currentParams = NoParams THEN "tonal" ELSE n.currentParams.archetype
       IN IF a \in {"textural", "chromatic_noise"}
          THEN [n EXCEPT !.sampleSource = FALSE,
                         !.sourcePlaying = FALSE,
                         !.strayLoops = LoopSources(n),
                         !.hasGranular = TRUE,
                         !.granular = Reset(SetBuffer(IF n.hasGranular THEN @ ELSE NewEngine)),
                         !.granularScanPos = 0,
                         !.sampleGain = CancelAndSet(@, 0, now),
                         !.sampleModeGain = CancelAndSet(@, 0, now)]
          ELSE [n EXCEPT !.granular = IF n.hasGranular THEN Reset(@) ELSE @,
                         !.sampleSource = TRUE,
                         !.sourcePlaying = TRUE,
                         !.strayLoops = LoopSources(n),
                         !.sampleGain = CancelAndSet(@, Mul(GainOne, 800), now),
                         !.sampleModeGain = CancelAndSet(@, GainOne, now)]

\* _initSampleRouting(): the existing looping source, if any, is stopped,
\* disconnected and dropped; then the granular engine is built or reused and
\* reset, or a new looping source is started.
InitSampleRouting(n, now) ==
  IF ~n.sampleBuffer THEN n
  ELSE LET a == IF n.currentParams = NoParams THEN "tonal" ELSE n.currentParams.archetype
       IN IF a \in {"textural", "chromatic_noise"}
          THEN [n EXCEPT !.sampleSource = FALSE,
                         !.sourcePlaying = FALSE,
                         !.hasGranular = TRUE,
                         !.granular = Reset(SetBuffer(IF n.hasGranular THEN @ ELSE NewEngine)),
                         !.granularScanPos = 0,
                         !.sampleGain = CancelAndSet(@, 0, now),
                         !.sampleModeGain = CancelAndSet(@, 0, now)]
          ELSE [n EXCEPT !.granular = IF n.hasGranular THEN Reset(@) ELSE @,
                         !.sampleSource = TRUE,
                         !.sourcePlaying = TRUE,
                         !.sampleGain = CancelAndSet(@, Mul(GainOne, 800), now),
                         !.sampleModeGain = CancelAndSet(@, GainOne, now)]

\* setModeParams(params); the oscillators are retuned to the root and scale the
\* params carry (updateBinFrequencies).
SetModeParams(n, params, now) ==
  InitSampleRouting(
    [SilenceAllBins(n, now) EXCEPT
       !.mangleReturn = CancelAndSet(@, 0, now),
       !.mangleSend = CancelAndSet(@, 0, now),
       !.sampleMangleSend = CancelAndSet(@, 0, now),
       !.specMixGate = CancelAndSet(@, GainOne, now),
       !.sampleFilterType = "allpass",
       !.currentParams = params,
       !.tuning = params.tuning,
       !.smoothedBins = [i \in Bins |-> 0],
       !.sampleModeLevel = 0,
       !.grainTimer = 0,
       !.lastTriggerTime = 0],
    now)

\* setSampleBuffer(buffer)
SetSampleBuffer(n, now) == InitSampleRouting([n EXCEPT !.sampleBuffer = TRUE], now)

\* clearSample()
ClearSample(n, now) ==
  [n EXCEPT !.sampleSource = FALSE, !.sampleBuffer = FALSE,
            !.sourcePlaying = FALSE,
            !.granular = IF n.hasGranular THEN Reset(@) ELSE @,
            !.sampleGain = CancelAndSet(@, 0, now),
            !.sampleModeGain = CancelAndSet(@, 0, now),
            !.sampleFilterType = "allpass"]

\* disconnect() without the flag: the node still counts as connected.
NodeDisconnectStillConnected(n, now) ==
  [n EXCEPT !.masterGain = SetValueAtTime(@, 0, now),
            !.oscStopped = TRUE,
            !.sourcePlaying = FALSE,
            !.granular = IF n.hasGranular THEN EngineDisconnect(@) ELSE @,
            !.wired = FALSE]

\* disconnect(): the master gain is set to 0 (no cancel), the oscillators and the
\* sample source stop, the granular engine, if any, is disconnected, and the
\* node's own graph is unwired.  The node's effects chain is disconnected by the
\* same call (EffectsDisconnect, on the chain).
NodeDisconnect(n, now) ==
  [n EXCEPT !.connected = FALSE,
            !.masterGain = SetValueAtTime(@, 0, now),
            !.oscStopped = TRUE,
            !.sourcePlaying = FALSE,
            !.granular = IF n.hasGranular THEN EngineDisconnect(@) ELSE @,
            !.wired = FALSE]

\* disconnect() when mangleRingOsc.stop() throws (an oscillator that was already
\* stopped, on an engine that rejects a second stop): the flag and the master
\* gain are set, the per-oscillator try blocks swallow their own errors, and the
\* outer catch swallows this one; the statements after it are skipped.
NodeDisconnectThrown(n, now) ==
  [n EXCEPT !.connected = FALSE,
            !.masterGain = SetValueAtTime(@, 0, now)]

\* --------------------------------------------------------------- updateFromPixel
\* The trigger condition without the cooldown.
HasTriggerNoCooldown(n, p, sample, now) ==
  \/ sample.edgeDensity > p.triggerThreshold
  \/ MeanBinAmplitude(n) > GainOne \div 20 /\ sample.contrast > 150

\* The rhythmic trigger condition: an edge or a beat, and the cooldown over
\* (now - lastTriggerTime > releaseTime * 0.6).
HasTrigger(n, p, sample, now) ==
  /\ \/ sample.edgeDensity > p.triggerThreshold
     \/ MeanBinAmplitude(n) > GainOne \div 20 /\ sample.contrast > 150
  /\ (now - n.lastTriggerTime) * 10 > p.releaseTime * 6

\* The muted branch without the two sample-path gains.
UpdateSilentBinsOnly(n, now) ==
  [SilenceAllBins(n, now) EXCEPT !.masterGain = CancelAndSet(@, 0, now)]

\* The muted / no-mode branch of updateFromPixel.
UpdateSilent(n, now) ==
  [SilenceAllBins(n, now) EXCEPT
     !.masterGain = CancelAndSet(@, 0, now),
     !.sampleGain = CancelAndSet(@, 0, now),
     !.sampleModeGain = CancelAndSet(@, 0, now)]

\* The sample-mode switch (hasSample), on the node m whose bins are slewed.
UpdateSample(m, p, sample, volume, now, dt) ==
  LET a == p.archetype
      s == [SilenceAllBins(m, now) EXCEPT
              !.sampleGain = CancelAndSet(@, Mul(Mul(GainOne, volume), p.outputGain), now),
              !.specMixGate = CancelAndSet(@, 0, now),
              !.mangleSend = CancelAndSet(@, 0, now),
              !.sampleMangleSend = CancelAndSet(@, 0, now),
              !.mangleReturn = CancelAndSet(@, 0, now)]
  IN CASE a = "tonal" ->
            LET level == Slew(s.sampleModeLevel, MeanBinAmplitude(s), 4 * PerMille, dt)
            IN [s EXCEPT !.sampleModeLevel = level,
                         !.sampleModeGain =
                            CancelAndTarget(@, Min(GainOne \div 5 + Mul(level, 800), GainOne), now),
                         !.sampleFilterType = "peaking"]
       [] a = "rhythmic" ->
            IF HasTrigger(s, p, sample, now)
            THEN [s EXCEPT !.lastTriggerTime = now,
                           !.sampleModeGain =
                              SetTargetAtTime(
                                LinearRampToValueAtTime(
                                  CancelAndSet(@, NearZero, now), GainOne, now + p.attackTime),
                                NearZero, now + p.attackTime)]
            ELSE s
       [] a = "textural" ->
            IF s.hasGranular
            THEN [s EXCEPT !.granularScanPos = sample.brightness,
                           !.granular = Tick(@, p.grainDensity, dt)]
            ELSE s
       [] a = "sub" ->
            LET lowSum == s.smoothedBins[1] + s.smoothedBins[2] + s.smoothedBins[3]
                          + s.smoothedBins[4] + s.smoothedBins[5] + s.smoothedBins[6]
                level == Slew(s.sampleModeLevel, Min((lowSum * 4) \div 6, GainOne),
                              2 * PerMille, dt)
            IN [s EXCEPT !.sampleModeLevel = level,
                         !.sampleModeGain = CancelAndTarget(@, level, now),
                         !.sampleFilterType = "lowpass"]
       [] a = "spectral" ->
            LET bal == p.colorChannelBalance
                channelAmp == ((sample.r * bal[1] + sample.g * bal[2] + sample.b * bal[3])
                               * (GainOne \div PerMille)) \div (255 * 3)
                level == Slew(s.sampleModeLevel, channelAmp, p.spectralSmoothing, dt)
            IN [s EXCEPT !.sampleModeLevel = level,
                         !.sampleModeGain = CancelAndTarget(@, Min(level * 3, GainOne), now),
                         !.sampleFilterType = "peaking"]
       [] OTHER ->
            IF s.hasGranular
            THEN [s EXCEPT !.granular = Tick(@, p.grainDensity, dt)]
            ELSE s


\* The bins of one synthesized grain of the textural archetype: the sample's bins
\* within grainWidth of the centre bin, with a falloff and a random factor rnd
\* (0.4 + Math.random() * 0.6, in thousandths; one draw stands for the 24).
GrainBins(p, sample, rnd) ==
  LET centerBin == (sample.brightness * (NUM_BINS - 1)) \div 255
  IN [i \in Bins |->
        LET dist == Abs((i - 1) - centerBin)
        IN IF dist <= p.grainWidth
           THEN Mul(Mul(sample.spectrumBins[i],
                        PerMille - (dist * PerMille) \div (p.grainWidth + 1)), rnd)
           ELSE 0]

\* while (this.grainTimer >= grainInterval) { ... writeBins(grainBins, ...) }
RECURSIVE GrainLoop(_, _, _, _, _, _)
GrainLoop(n, p, sample, volume, now, rnd) ==
  IF n.grainTimer >= Interval(p.grainDensity)
  THEN GrainLoop(WriteBins([n EXCEPT !.grainTimer = @ - Interval(p.grainDensity)],
                           GrainBins(p, sample, rnd), p, volume, now, sample),
                 p, sample, volume, now, rnd)
  ELSE n

\* Math.max(2, 8 - Math.floor(sample.contrast * 6))
QuantSteps(sample) == Max(2, 8 - (sample.contrast * 6) \div PerMille)

\* Math.round(x * steps) / steps
Quantise(x, steps) ==
  (((2 * x * steps + GainOne) \div (2 * GainOne)) * GainOne) \div steps

\* The synth-mode switch with the direct route opened for every archetype.
UpdateSynthDirectRoute(m, p, sample, volume, now, dt, rnd) ==
  LET a == p.archetype
      s == [m EXCEPT
              !.sampleGain = CancelAndSet(@, 0, now),
              !.sampleModeGain = CancelAndSet(@, 0, now),
              !.specMixGate = CancelAndSet(@, GainOne, now),
              !.mangleSend = CancelAndSet(@, 0, now),
              !.mangleReturn = CancelAndSet(@, 0, now)]
  IN CASE a = "tonal" -> WriteBins(s, s.smoothedBins, p, volume, now, sample)
       [] a = "rhythmic" ->
            IF HasTrigger(s, p, sample, now)
            THEN [s EXCEPT
                    !.lastTriggerTime = now,
                    !.specGains = [i \in Bins |->
                       ExponentialRampToValueAtTime(
                         CancelAndSet(@[i],
                           Min(Mul(Mul(Mul(Mul(s.smoothedBins[i], p.binWeightCurve[i]),
                                           VarW(sample, i)), volume), p.outputGain),
                               BIN_CEIL),
                           now),
                         NearZero, now + p.releaseTime)]]
            ELSE s
       [] a = "textural" ->
            GrainLoop([s EXCEPT !.grainTimer = @ + dt], p, sample, volume, now, rnd)
       [] a = "sub" ->
            [s EXCEPT !.specGains = [i \in Bins |->
               CancelAndTarget(@[i],
                 IF p.binWeightCurve[i] < 10 THEN 0
                 ELSE Min(Mul(Mul(Mul(s.smoothedBins[i], p.binWeightCurve[i]), volume),
                              p.outputGain) * 4,
                          BIN_CEIL),
                 now)]]
       [] a = "spectral" ->
            [s EXCEPT !.specGains = [i \in Bins |->
               LET ch == <<sample.r, sample.g, sample.b>>[((i - 1) % 3) + 1]
                   channelAmp == (ch * p.colorChannelBalance[((i - 1) % 3) + 1]) \div 255
               IN CancelAndTarget(@[i],
                    Min(Mul(Mul(Mul(Mul(Mul(s.smoothedBins[i], channelAmp),
                                        p.binWeightCurve[i]), VarW(sample, i)), volume),
                            p.outputGain) * 3,
                        BIN_CEIL),
                    now)]]
       [] OTHER ->
            [s EXCEPT !.specGains = [i \in Bins |->
               CancelAndTarget(@[i],
                 Min(Mul(Mul(Mul(Mul(Quantise(s.smoothedBins[i], QuantSteps(sample)),
                                     p.binWeightCurve[i]), VarW(sample, i)), volume),
                         p.outputGain),
                     BIN_CEIL),
                 now)]]

\* The synth-mode switch (no sample), on the node m whose bins are slewed.
UpdateSynth(m, p, sample, volume, now, dt, rnd) ==
  LET a == p.archetype
      noise == a = "chromatic_noise"
      s == [m EXCEPT
              !.sampleGain = CancelAndSet(@, 0, now),
              !.sampleModeGain = CancelAndSet(@, 0, now),
              !.specMixGate = CancelAndSet(@, IF noise THEN 0 ELSE GainOne, now),
              !.mangleSend = CancelAndSet(@, IF noise THEN GainOne ELSE 0, now),
              !.mangleReturn = CancelAndSet(@, IF noise THEN Mul(GainOne, 800) ELSE 0, now)]
  IN CASE a = "tonal" -> WriteBins(s, s.smoothedBins, p, volume, now, sample)
       [] a = "rhythmic" ->
            IF HasTrigger(s, p, sample, now)
            THEN [s EXCEPT
                    !.lastTriggerTime = now,
                    !.specGains = [i \in Bins |->
                       ExponentialRampToValueAtTime(
                         CancelAndSet(@[i],
                           Min(Mul(Mul(Mul(Mul(s.smoothedBins[i], p.binWeightCurve[i]),
                                           VarW(sample, i)), volume), p.outputGain),
                               BIN_CEIL),
                           now),
                         NearZero, now + p.releaseTime)]]
            ELSE s
       [] a = "textural" ->
            GrainLoop([s EXCEPT !.grainTimer = @ + dt], p, sample, volume, now, rnd)
       [] a = "sub" ->
            [s EXCEPT !.specGains = [i \in Bins |->
               CancelAndTarget(@[i],
                 IF p.binWeightCurve[i] < 10 THEN 0
                 ELSE Min(Mul(Mul(Mul(s.smoothedBins[i], p.binWeightCurve[i]), volume),
                              p.outputGain) * 4,
                          BIN_CEIL),
                 now)]]
       [] a = "spectral" ->
            [s EXCEPT !.specGains = [i \in Bins |->
               LET ch == <<sample.r, sample.g, sample.b>>[((i - 1) % 3) + 1]
                   channelAmp == (ch * p.colorChannelBalance[((i - 1) % 3) + 1]) \div 255
               IN CancelAndTarget(@[i],
                    Min(Mul(Mul(Mul(Mul(Mul(s.smoothedBins[i], channelAmp),
                                        p.binWeightCurve[i]), VarW(sample, i)), volume),
                            p.outputGain) * 3,
                        BIN_CEIL),
                    now)]]
       [] OTHER ->
            [s EXCEPT !.specGains = [i \in Bins |->
               CancelAndTarget(@[i],
                 Min(Mul(Mul(Mul(Mul(Quantise(s.smoothedBins[i], QuantSteps(sample)),
                                     p.binWeightCurve[i]), VarW(sample, i)), volume),
                         p.outputGain),
                     BIN_CEIL),
                 now)]]

\* updateFromPixel with hasSample taken from the looping source alone.
UpdateFromPixelSourceOnly(n, sample, volume, muted, dt, now, rnd) ==
  IF ~n.connected THEN n
  ELSE LET f == [n EXCEPT !.lastDt = dt]
       IN IF muted \/ f.currentParams = NoParams
          THEN UpdateSilent(f, now)
          ELSE LET p == f.currentParams
                   m == [f EXCEPT
                           !.masterGain = CancelAndSet(@, GainOne, now),
                           !.smoothedBins =
                              SlewBins(@, sample.spectrumBins, p.spectralSmoothing, dt)]
               IN IF m.sampleSource
                  THEN UpdateSample(m, p, sample, volume, now, dt)
                  ELSE UpdateSynth(m, p, sample, volume, now, dt, rnd)

\* updateFromPixel without the early return of a disconnected node.
UpdateFromPixelUnguarded(n, sample, volume, muted, dt, now, rnd) ==
  LET f == [n EXCEPT !.lastDt = dt]
  IN IF muted \/ f.currentParams = NoParams
     THEN UpdateSilent(f, now)
     ELSE LET p == f.currentParams
              m == [f EXCEPT
                      !.masterGain = CancelAndSet(@, GainOne, now),
                      !.smoothedBins =
                         SlewBins(@, sample.spectrumBins, p.spectralSmoothing, dt)]
          IN IF m.sampleSource \/ (m.hasGranular /\ m.sampleBuffer)
             THEN UpdateSample(m, p, sample, volume, now, dt)
             ELSE UpdateSynth(m, p, sample, volume, now, dt, rnd)

\* updateFromPixel(sample, volume, muted, dt)
UpdateFromPixel(n, sample, volume, muted, dt, now, rnd) ==
  IF ~n.connected THEN n
  ELSE LET f == [n EXCEPT !.lastDt = dt]
       IN IF muted \/ f.currentParams = NoParams
          THEN UpdateSilent(f, now)
          ELSE LET p == f.currentParams
                   m == [f EXCEPT
                           !.masterGain = CancelAndSet(@, GainOne, now),
                           !.smoothedBins =
                              SlewBins(@, sample.spectrumBins, p.spectralSmoothing, dt)]
               IN IF m.sampleSource \/ (m.hasGranular /\ m.sampleBuffer)
                  THEN UpdateSample(m, p, sample, volume, now, dt)
                  ELSE UpdateSynth(m, p, sample, volume, now, dt, rnd)

\* ============================================================ useSonimageStore
\* An image profile is named by a number (0: null, no image analysed).  Two
\* images may share root and scale and still differ in their generated modes.
Profiles == {1, 2, 3}

ProfileRootHz(p) == IF p = 3 THEN 196 ELSE 110

ProfileScale(p) == IF p = 3 THEN "minor" ELSE "major"

\* imageProfile.generatedModes, ids `${archetype}-${idx}`, best score first
GeneratedModes(p) ==
  CASE p = 1 -> <<[id |-> "tonal-0", archetype |-> "tonal"],
                  [id |-> "rhythmic-1", archetype |-> "rhythmic"],
                  [id |-> "sub-2", archetype |-> "sub"]>>
    [] p = 2 -> <<[id |-> "spectral-0", archetype |-> "spectral"],
                  [id |-> "tonal-1", archetype |-> "tonal"],
                  [id |-> "sub-2", archetype |-> "sub"]>>
    [] p = 3 -> <<[id |-> "sub-0", archetype |-> "sub"],
                  [id |-> "tonal-1", archetype |-> "tonal"],
                  [id |-> "chromatic_noise-2", archetype |-> "chromatic_noise"]>>
    [] OTHER -> <<>>

\* The store as create() leaves it.  rootOverride 0 and scaleOverride "none"
\* stand for null (the key control stores no semitone offset of 0).
NewStore ==
  [layers |-> <<>>, isPlaying |-> FALSE, masterVolume |-> 800,
   imageDataUrl |-> FALSE, cachedPixelData |-> FALSE, imageProfile |-> 0,
   rootOverride |-> 0, scaleOverride |-> "none"]

\* The layer addLayer(rect) appends.
NewLayer(id, rect, st) ==
  [id |-> id, x |-> rect.x, y |-> rect.y, width |-> rect.width, height |-> rect.height,
   scanX |-> 0, scanPos |-> 0, scanSpeed |-> 60, scanDirection |-> "horizontal",
   volume |-> 700, muted |-> FALSE,
   generatedModeId |-> IF Len(GeneratedModes(st.imageProfile)) > 0
                       THEN GeneratedModes(st.imageProfile)[1].id ELSE "null",
   paramOverrides |-> <<>>, pitchSemitones |-> 0]

\* state.layers.map(l => l.id === id ? patched(l) : l)
MapLayer(layers, id, field, value) ==
  [i \in 1..Len(layers) |->
     IF layers[i].id = id THEN [layers[i] EXCEPT ![field] = value] ELSE layers[i]]

\* The layer of that id.
LayerOf(layers, id) == layers[CHOOSE i \in 1..Len(layers) : layers[i].id = id]

\* state.layers.filter(l => l.id !== id)
RemoveLayer(layers, id) ==
  LET Other(l) == l.id # id IN SelectSeq(layers, Other)

LayerIdsOf(layers) == {layers[i].id : i \in 1..Len(layers)}

\* ================================================================ AudioEngine
\* The engine's master gain after new AudioEngine(), and its three writers.
NewEngineMaster == ParamAt(Mul(GainOne, 800), 0)

SetMasterVolume(p, vol, now) == LinearRampToValueAtTime(p, Mul(GainOne, vol), now + 2)

SilenceAll(p, now) == CancelAndSet(p, 0, now)

RestoreVolume(p, vol, now) == CancelAndSet(p, Mul(GainOne, vol), now)

\* A node that is born with the params of a tonal mode.
CreateLayerNodeWithMode(now) == [NewNode(now) EXCEPT !.currentParams = ModeParams("tonal")]

\* createLayerNode(layer), for a layer without a sample buffer
CreateLayerNode(now) == NewNode(now)

\* ============================================================== animationLoop
\* The effective profile of a frame: the image profile under the root and scale
\* overrides.  shift is the number of semitones rootHz is moved by.
EffectiveProfile(st) ==
  [profile |-> st.imageProfile,
   rootHz |-> ProfileRootHz(st.imageProfile),
   shift |-> st.rootOverride,
   scale |-> IF st.scaleOverride # "none" THEN st.scaleOverride
             ELSE ProfileScale(st.imageProfile)]

\* `${rootHz.toFixed(4)}-${scale}-${rootOverride}-${scaleOverride}`; the first
\* two components stand for the effective rootHz, rootHz * 2^(rootOverride/12).
ProfileIdOf(st) ==
  <<ProfileRootHz(st.imageProfile), st.rootOverride,
    EffectiveProfile(st).scale, st.rootOverride, st.scaleOverride>>

\* The root and scale an oscillator bank is tuned to: rootHz moved by shift
\* semitones, and the scale's ratios.
Tuning(eff, pitch) == <<eff.rootHz, eff.shift + pitch, eff.scale>>

\* `${generatedModeId}::${JSON.stringify(paramOverrides)}::${pitchSemitones}`
CacheKey(layer) == <<layer.generatedModeId, layer.paramOverrides, layer.pitchSemitones>>

\* generatedModes.find(m => m.id === layer.generatedModeId): its index, 0 if none
FindMode(p, modeId) ==
  LET hits == {i \in 1..Len(GeneratedModes(p)) : GeneratedModes(p)[i].id = modeId}
  IN IF hits = {} THEN 0 ELSE CHOOSE i \in hits : \A j \in hits : i <= j

\* { ...baseParams, ...overrides }: paramOverrides is <<>> or <<key, value>>
MergeOverrides(params, overrides) ==
  IF overrides = <<>> THEN params
  ELSE [params EXCEPT ![overrides[1]] = overrides[2]]

\* The params a frame pushes for a layer whose mode is the i-th of the profile.
EffectiveParams(st, layer, i) ==
  MergeOverrides(
    [ModeParams(GeneratedModes(st.imageProfile)[i].archetype) EXCEPT
       !.tuning = Tuning(EffectiveProfile(st), layer.pitchSemitones)],
    layer.paramOverrides)


\* One unit of scan position: scanPos 1.0; scanX is counted in 1/SecUnits pixel.
PosOne == SecUnits * 120

\* A scan head that runs on past the far edge of its rectangle.
AdvanceScanNoWrap(layer, delta) ==
  LET speed == layer.scanSpeed * delta
      w == Max(layer.width, 1)
  IN [scanX |-> layer.scanX + speed,
      scanPos |-> ((layer.scanX + speed) * (PosOne \div SecUnits)) \div w]

\* A scan head whose vertical or diagonal position is not wrapped at 1.
AdvanceScanPosUnwrapped(layer, delta) ==
  LET speed == layer.scanSpeed * delta
  IN IF layer.scanDirection = "horizontal"
     THEN LET w == Max(layer.width, 1)
              newScanX == (layer.scanX + speed) % (w * SecUnits)
          IN [scanX |-> newScanX, scanPos |-> (newScanX * (PosOne \div SecUnits)) \div w]
     ELSE LET dim == IF layer.scanDirection = "vertical"
                     THEN Max(layer.height, 1)
                     ELSE Max(Max(layer.width, layer.height), 1)
          IN [scanX |-> layer.scanX,
              scanPos |-> layer.scanPos + (speed * (PosOne \div SecUnits)) \div dim]

\* The scan head of a layer after a frame of delta time units: scanX and scanPos.
AdvanceScan(layer, delta) ==
  LET speed == layer.scanSpeed * delta
  IN IF layer.scanDirection = "horizontal"
     THEN LET w == Max(layer.width, 1)
              newScanX == (layer.scanX + speed) % (w * SecUnits)
          IN [scanX |-> newScanX, scanPos |-> (newScanX * (PosOne \div SecUnits)) \div w]
     ELSE LET dim == IF layer.scanDirection = "vertical"
                     THEN Max(layer.height, 1)
                     ELSE Max(Max(layer.width, layer.height), 1)
          IN [scanX |-> layer.scanX,
              scanPos |-> (layer.scanPos + (speed * (PosOne \div SecUnits)) \div dim) % PosOne]

\* The pixel the frame samples for a layer, <<absX, absY>>, the rectangle's
\* corner being at whole pixels.
SamplePoint(layer, delta) ==
  LET head == AdvanceScan(layer, delta)
      Along(len) == (head.scanPos * len) \div PosOne
  IN IF layer.scanDirection = "horizontal"
     THEN <<layer.x + head.scanX \div SecUnits, (2 * layer.y + layer.height) \div 2>>
     ELSE IF layer.scanDirection = "vertical"
     THEN <<(2 * layer.x + layer.width) \div 2, layer.y + Along(layer.height)>>
     ELSE IF layer.scanDirection = "diagonal-down"
     THEN <<layer.x + Along(layer.width), layer.y + Along(layer.height)>>
     ELSE <<layer.x + Along(layer.width),
            layer.y + ((PosOne - head.scanPos) * layer.height) \div PosOne>>

\* new Map(): nothing in it.
EmptyMap == [i \in {} |-> 0]

\* The guard of the playing branch without isPlaying.
PlayingBranchWhilePaused(st) == st.cachedPixelData /\ Len(st.layers) > 0

\* The frame enters its playing branch.
PlayingBranch(st) == st.isPlaying /\ st.cachedPixelData /\ Len(st.layers) > 0

\* The layers of the snapshot a playing frame processes: those with a node.
Processed(st, nodes) ==
  IF PlayingBranch(st)
  THEN {i \in 1..Len(st.layers) : st.layers[i].id \in DOMAIN nodes}
  ELSE {}

\* A profile push that is due only when the base image's root or scale is new.
ProfileChangedBaseOnly(st, lastId) ==
  /\ st.imageProfile # 0
  /\ \/ lastId = <<>>
     \/ <<ProfileRootHz(st.imageProfile), ProfileScale(st.imageProfile)>>
          # <<lastId[1], lastId[3]>>

\* The profile push of a frame is due: there is an effective profile and its id
\* is not the one pushed last.
ProfileChanged(st, lastId) == st.imageProfile # 0 /\ ProfileIdOf(st) # lastId

\* A frame that pushes mode params and does not remember having done so.
CacheSetNothing(cache, id, key) == cache

\* layerModeCache.set(layer.id, cacheKey)
CacheSet(cache, id, key) == [i \in DOMAIN cache \cup {id} |-> IF i = id THEN key ELSE cache[i]]

\* The frame's mode push to a layer is due: its cache key differs from the cached
\* one, there is an effective profile, and the mode id resolves.
ModePushDue(st, cache, layer) ==
  /\ ~(layer.id \in DOMAIN cache /\ cache[layer.id] = CacheKey(layer))
  /\ st.imageProfile # 0
  /\ FindMode(st.imageProfile, layer.generatedModeId) # 0

\* A frame that drives the node with the params it has and pushes the layer's
\* mode params after.
FrameNodeUpdateFirst(st, cache, layer, n, sample, delta, now, rnd) ==
  LET driven == UpdateFromPixel(n, sample, layer.volume, layer.muted, delta, now, rnd)
  IN IF ModePushDue(st, cache, layer)
     THEN SetPitchSemitones(
            SetModeParams(driven, EffectiveParams(st, layer,
                                    FindMode(st.imageProfile, layer.generatedModeId)), now),
            layer.pitchSemitones)
     ELSE driven

\* What a frame does to the node of a processed layer: setModeParams and
\* setPitchSemitones if due, then updateFromPixel.
FrameNode(st, cache, layer, n, sample, delta, now, rnd) ==
  UpdateFromPixel(
    IF ModePushDue(st, cache, layer)
    THEN SetPitchSemitones(
           SetModeParams(n, EffectiveParams(st, layer,
                               FindMode(st.imageProfile, layer.generatedModeId)), now),
           layer.pitchSemitones)
    ELSE n,
    sample, layer.volume, layer.muted, delta, now, rnd)

\* A frame that pushes a layer's mode params first and retunes to the profile
\* after, before it drives the node.
FrameNodesModeFirst(st, nodes, cache, lastId, sample, delta, now, rnd) ==
  LET changed == ProfileChanged(st, lastId)
      cache1 == IF changed THEN EmptyMap ELSE cache
      Retuned(n) == IF changed
                    THEN SetImageProfile(n, Tuning(EffectiveProfile(st), 0))
                    ELSE n
      Pushed(n, layer) ==
        IF ModePushDue(st, cache1, layer)
        THEN SetPitchSemitones(
               SetModeParams(n, EffectiveParams(st, layer,
                                   FindMode(st.imageProfile, layer.generatedModeId)), now),
               layer.pitchSemitones)
        ELSE n
  IN [id \in DOMAIN nodes |->
        IF \E i \in Processed(st, nodes) : st.layers[i].id = id
        THEN LET layer == st.layers[CHOOSE j \in Processed(st, nodes) : st.layers[j].id = id]
             IN UpdateFromPixel(Retuned(Pushed(nodes[id], layer)),
                                sample, layer.volume, layer.muted, delta, now, rnd)
        ELSE Retuned(nodes[id])]

\* The nodes after the frame: retuned if the profile changed, then driven layer
\* by layer.
FrameNodes(st, nodes, cache, lastId, sample, delta, now, rnd) ==
  LET changed == ProfileChanged(st, lastId)
      cache1 == IF changed THEN EmptyMap ELSE cache
      Retuned(id) == IF changed
                     THEN SetImageProfile(nodes[id], Tuning(EffectiveProfile(st), 0))
                     ELSE nodes[id]
  IN [id \in DOMAIN nodes |->
        IF \E i \in Processed(st, nodes) : st.layers[i].id = id
        THEN LET i == CHOOSE j \in Processed(st, nodes) : st.layers[j].id = id
             IN FrameNode(st, cache1, st.layers[i], Retuned(id), sample, delta, now, rnd)
        ELSE Retuned(id)]

\* layerModeCache after the frame.
RECURSIVE FrameCacheFrom(_, _, _, _)
FrameCacheFrom(st, nodes, cache, i) ==
  IF i > Len(st.layers) THEN cache
  ELSE FrameCacheFrom(st, nodes,
         IF i \in Processed(st, nodes) /\ ModePushDue(st, cache, st.layers[i])
         THEN CacheSet(cache, st.layers[i].id, CacheKey(st.layers[i]))
         ELSE cache,
         i + 1)

FrameCache(st, nodes, cache, lastId) ==
  FrameCacheFrom(st, nodes, IF ProfileChanged(st, lastId) THEN EmptyMap ELSE cache, 1)

\* scanUpdates: for each processed layer, by id, its new scanX and scanPos.
ScanUpdates(st, nodes, delta) ==
  [id \in {st.layers[i].id : i \in Processed(st, nodes)} |->
     AdvanceScan(st.layers[CHOOSE i \in Processed(st, nodes) : st.layers[i].id = id], delta)]

\* A write-back that keeps only the layers it has an update for.
WriteBackProcessedOnly(layers, scanUpdates) ==
  LET Updated(l) == l.id \in DOMAIN scanUpdates
      kept == SelectSeq(layers, Updated)
  IN [i \in 1..Len(kept) |->
        [kept[i] EXCEPT !.scanX = scanUpdates[kept[i].id].scanX,
                        !.scanPos = scanUpdates[kept[i].id].scanPos]]

\* The write-back: store.setState(state => ({ layers: state.layers.map(...) }))
WriteBack(layers, scanUpdates) ==
  [i \in 1..Len(layers) |->
     IF layers[i].id \in DOMAIN scanUpdates
     THEN [layers[i] EXCEPT !.scanX = scanUpdates[layers[i].id].scanX,
                            !.scanPos = scanUpdates[layers[i].id].scanPos]
     ELSE layers[i]]


\* ------------------------------------------------------ the application state
\* A map with no entries (an empty Map).
\* Nothing in flight: no frame between its read and its write-back, no image
\* file being read.
NothingInFlight == [scanUpdates |-> EmptyMap, frame |-> FALSE, image |-> FALSE]

LHistInit ==
  [op |-> "new", edits |-> 0, frames |-> 0, issued |-> {},
   seen |-> <<0, 0, "none">>, changed |-> FALSE, rekeyed |-> FALSE,
   detected |-> FALSE, pushed |-> {}, processed |-> {}, withNode |-> {},
   staleBefore |-> {}, run |-> EmptyMap, editedSinceRead |-> FALSE,
   elapsed |-> 0, sampledAt |-> EmptyMap]

LoopInit ==
  /\ store = NewStore
  /\ audioNodeMap = EmptyMap
  /\ engineMaster = NewEngineMaster
  /\ lastProfileId = <<>>
  /\ layerModeCache = EmptyMap
  /\ inflight = NothingInFlight
  /\ lhist = LHistInit

\* ------------------------------------------------ the engine driven directly
\* The bookkeeping of the calls made so far, before any call.
GHistInit ==
  [op |-> "new", n |-> 0, free |-> MAX_GRAINS, started |-> 0,
   ticks |-> 0, callbacks |-> 0, resets |-> 0,
   runD |-> 0, sumDt |-> 0, attempts |-> 0]

\* =============================================================== imageAnalyzer
\* analyzeImage on small images.  Luminance is kept in tenths (0..2550), the
\* profile scalars (contrast, warmth, saturation, spatial energies) in
\* 1/PerMille and the archetype scores in 1/ScoreOne; divisions round down.  The
\* hue, root and scale of the profile are not read by the scores and are left
\* out.  Every image here has at most 4096 pixels, so both sampling strides
\* (Math.max(1, Math.floor(width * height / 4096)), and / 2048) are 1.
ScoreOne == 10 * PerMille

\* THRESHOLD, MIN_MODES, MAX_MODES
THRESHOLD == ScoreOne \div 4
MIN_MODES == 3
MAX_MODES == 5

\* The value of 0 / 0, and of every arithmetic expression that has it as an
\* operand; no number is equal to it and every comparison with it is false.
NaN == 0 - 1

\* Math.sqrt, rounded down, of a variance of luminances in tenths
Sqrt(x) == CHOOSE k \in 0..2550 : k * k <= x /\ (k + 1) * (k + 1) > x

\* 0.299 * r + 0.587 * g + 0.114 * b, in tenths
Luma(px) == (299 * px.r + 587 * px.g + 114 * px.b) \div 100

\* The sum of F over the pixels of a buffer (a sequence of pixels).
RECURSIVE SumChannel(_, _, _)
SumChannel(data, ch, i) ==
  IF i > Len(data) THEN 0
  ELSE (IF ch = "luma" THEN Luma(data[i]) ELSE data[i][ch]) + SumChannel(data, ch, i + 1)

\* brightnessValues.reduce((acc, v) => acc + (v - avgBrightness) ** 2, 0)
RECURSIVE SumSquares(_, _, _)
SumSquares(data, avg, i) ==
  IF i > Len(data) THEN 0
  ELSE (Luma(data[i]) - avg) * (Luma(data[i]) - avg) + SumSquares(data, avg, i + 1)

\* estimateSpatialFreqs: the walk over the pixels that have a pixel 8 further on
\* (i < pixelData.length - 8 * 4), summing the luminance differences at
\* distance d; the far read is clamped to the last pixel.
RECURSIVE DiffSum(_, _, _)
DiffSum(data, d, p) ==
  IF p > Len(data) - 8 THEN 0
  ELSE Abs(Luma(data[p]) - Luma(data[Min(p + d, Len(data))])) + DiffSum(data, d, p + 1)

\* Math.min(diff / n / maxD * weight, 1); n = 0 makes it 0 / 0.
SpatialEnergy(diff, n, weight) ==
  IF n = 0 THEN NaN ELSE Min((diff * weight * PerMille) \div (n * 2550), PerMille)

EstimateSpatialFreqs(data) ==
  LET n == Max(Len(data) - 8, 0)
  IN [high |-> SpatialEnergy(DiffSum(data, 1, 1), n, 4),
      mid |-> SpatialEnergy(DiffSum(data, 4, 1), n, 3),
      low |-> SpatialEnergy(DiffSum(data, 8, 1), n, 2)]

\* A score that reads a spatial energy is NaN when the energy is.
ScoreOr(energies, score) == IF NaN \in energies THEN NaN ELSE score

\* brightness / 255, in 1/PerMille
Brightness01(p) == (p.brightness * PerMille) \div 2550

scoreTonal(p) ==
  ScoreOr({p.spatialHigh},
          (PerMille - p.contrast) * 4 + Brightness01(p) * 3 + (PerMille - p.spatialHigh) * 3)

scoreRhythmic(p) ==
  ScoreOr({p.spatialMid}, p.contrast * 5 + p.spatialMid * 3 + p.rhythmicDensity * 2)

scoreTextural(p) ==
  ScoreOr({p.spatialHigh},
          p.spatialHigh * 5 + p.contrast * 3 + (PerMille - Abs(p.saturation - 400)) * 2)

\* The sub score with darkness weighted 0.7 and no spatial term.
scoreSubDarkWeighted(p) ==
  ScoreOr({p.spatialLow}, (PerMille - Brightness01(p)) * 7 + (PerMille - p.warmth) * 3)

scoreSub(p) ==
  ScoreOr({p.spatialLow},
          (PerMille - Brightness01(p)) * 5 + (PerMille - p.warmth) * 3 + p.spatialLow * 2)

scoreSpectral(p) ==
  LET spatialVariety == PerMille - Max(p.spatialLow, Max(p.spatialMid, p.spatialHigh))
                          + Min(p.spatialLow, Min(p.spatialMid, p.spatialHigh))
  IN ScoreOr({p.spatialLow, p.spatialMid, p.spatialHigh},
             p.saturation * 4 + spatialVariety * 4 + Brightness01(p) * 2)

scoreChromaticNoise(p) ==
  ScoreOr({p.spatialHigh},
          p.contrast * 4 + (PerMille - p.saturation) * 3 + p.spatialHigh * 3)

\* The comparator of scores.sort, (a, b) => b.score - a.score, says a goes
\* after b: the difference is positive.  With a NaN score the difference is NaN,
\* which sort takes as 0.
GoesAfter(a, b) == a.score # NaN /\ b.score # NaN /\ b.score - a.score > 0

\* Array.prototype.sort with that comparator: a stable sort, built here by
\* inserting the entries one by one, each behind the entries it does not have
\* to precede.
InsertSorted(sorted, x) ==
  LET Ahead(i) == \A j \in 1..i : ~GoesAfter(sorted[j], x)
      k == CHOOSE i \in 0..Len(sorted) :
             Ahead(i) /\ (i = Len(sorted) \/ GoesAfter(sorted[i + 1], x))
  IN SubSeq(sorted, 1, k) \o <<x>> \o SubSeq(sorted, k + 1, Len(sorted))

RECURSIVE SortFrom(_, _, _)
SortFrom(scores, sorted, i) ==
  IF i > Len(scores) THEN sorted
  ELSE SortFrom(scores, InsertSorted(sorted, scores[i]), i + 1)

SortByScore(scores) == SortFrom(scores, <<>>, 1)

\* scores.filter((s, i) => i < MIN_MODES || (i < MAX_MODES && s.score >= THRESHOLD))
\* (i counts from 0 there, from 1 here), then the map that numbers the ids.
SelectModes(sorted) ==
  LET kept == {i \in 1..Len(sorted) :
                 \/ i <= MIN_MODES
                 \/ i <= MAX_MODES /\ sorted[i].score # NaN /\ sorted[i].score >= THRESHOLD}
      RECURSIVE Pick(_)
      Pick(i) == IF i > Len(sorted) THEN <<>>
                 ELSE (IF i \in kept THEN <<sorted[i]>> ELSE <<>>) \o Pick(i + 1)
      picked == Pick(1)
  IN [idx \in 1..Len(picked) |->
        [id |-> <<picked[idx].archetype, idx - 1>>,
         archetype |-> picked[idx].archetype,
         score |-> picked[idx].score]]

\* analyzeImage(pixelData, width, height)
AnalyzeImage(img) ==
  LET data == img.data
      count == Len(data)
      totalR == SumChannel(data, "r", 1)
      totalG == SumChannel(data, "g", 1)
      totalB == SumChannel(data, "b", 1)
      avgBrightness == SumChannel(data, "luma", 1) \div count
      variance == SumSquares(data, avgBrightness, 1) \div count
      contrast == Min((Sqrt(variance) * PerMille) \div 800, PerMille)
      warmth == Max(0, Min(PerMille,
                  ((totalR - totalB) * PerMille) \div (count * 256) + PerMille \div 2))
      maxC == Max(totalR, Max(totalG, totalB))
      minC == Min(totalR, Min(totalG, totalB))
      saturation == IF maxC > 0 THEN ((maxC - minC) * PerMille) \div maxC ELSE 0
      spatial == EstimateSpatialFreqs(data)
      profile == [warmth |-> warmth, saturation |-> saturation,
                  brightness |-> avgBrightness, contrast |-> contrast,
                  rhythmicDensity |-> contrast,
                  spatialLow |-> spatial.low, spatialMid |-> spatial.mid,
                  spatialHigh |-> spatial.high]
      scores == <<[archetype |-> "tonal", score |-> scoreTonal(profile)],
                  [archetype |-> "rhythmic", score |-> scoreRhythmic(profile)],
                  [archetype |-> "textural", score |-> scoreTextural(profile)],
                  [archetype |-> "sub", score |-> scoreSub(profile)],
                  [archetype |-> "spectral", score |-> scoreSpectral(profile)],
                  [archetype |-> "chromatic_noise", score |-> scoreChromaticNoise(profile)]>>
  IN [done |-> TRUE, profile |-> profile,
      generatedModes |-> SelectModes(SortByScore(scores))]

\* No image handed to the analyzer, and no result.
NoImage == [width |-> 0, height |-> 0, data |-> <<>>]
NotAnalysed == [done |-> FALSE]

\* ================================================= snapToScale, frequencyUtils
\* Frequencies and scale ratios are exact fractions <<numerator, denominator>>
\* (both positive), compared by cross-multiplication; the rounding of the
\* doubles the code computes with is outside the model.
Frac(n, d) == <<n, d>>
FracLess(x, y) == x[1] * y[2] < y[1] * x[2]
FracEq(x, y) == x[1] * y[2] = y[1] * x[2]

\* SCALES
SCALES ==
  [major |-> <<Frac(1, 1), Frac(9, 8), Frac(5, 4), Frac(4, 3), Frac(3, 2), Frac(5, 3),
               Frac(15, 8)>>,
   minor |-> <<Frac(1, 1), Frac(9, 8), Frac(6, 5), Frac(4, 3), Frac(3, 2), Frac(8, 5),
               Frac(9, 5)>>,
   pentatonic |-> <<Frac(1, 1), Frac(9, 8), Frac(5, 4), Frac(3, 2), Frac(5, 3)>>,
   wholetone |-> <<Frac(1, 1), Frac(9, 8), Frac(5, 4), Frac(45, 32), Frac(3, 2),
                   Frac(27, 16)>>,
   chromatic |-> <<Frac(1, 1), Frac(16, 15), Frac(9, 8), Frac(6, 5), Frac(5, 4),
                   Frac(4, 3), Frac(45, 32), Frac(3, 2), Frac(8, 5), Frac(5, 3),
                   Frac(9, 5), Frac(15, 8)>>]

\* while (note < profile.rootHz) note *= 2
RECURSIVE RaiseToRoot(_, _)
RaiseToRoot(note, rootHz) ==
  IF FracLess(note, Frac(rootHz, 1)) THEN RaiseToRoot(Frac(2 * note[1], note[2]), rootHz)
  ELSE note

\* while (note > profile.rootHz * 4) note /= 2
RECURSIVE LowerToRange(_, _)
LowerToRange(note, rootHz) ==
  IF FracLess(Frac(4 * rootHz, 1), note)
  THEN LowerToRange(Frac(note[1], 2 * note[2]), rootHz)
  ELSE note

\* Math.pow(2, Math.floor(Math.log2(ratio))) for a note in [rootHz, 4 * rootHz]
OctaveMult(note, rootHz) ==
  IF FracLess(note, Frac(2 * rootHz, 1)) THEN 1
  ELSE IF FracLess(note, Frac(4 * rootHz, 1)) THEN 2 ELSE 4

\* |inOctave - r| < |inOctave - q| for inOctave = note / (rootHz * mult)
Nearer(note, base, r, q) ==
  Abs(note[1] * r[2] - base * r[1] * note[2]) * q[2]
    < Abs(note[1] * q[2] - base * q[1] * note[2]) * r[2]

\* The loop over scaleRatios (dist < bestDist): the first of the nearest ratios.
NearestRatio(note, base, ratios) ==
  LET k == CHOOSE i \in 1..Len(ratios) :
             /\ \A j \in 1..(i - 1) : Nearer(note, base, ratios[i], ratios[j])
             /\ \A j \in 1..Len(ratios) : ~Nearer(note, base, ratios[j], ratios[i])
  IN ratios[k]

\* snapToScale returning the note itself scaled by the ratio found.
snapToScaleOfNote(hz, profile) ==
  LET note == LowerToRange(RaiseToRoot(hz, profile.rootHz), profile.rootHz)
      octaveMult == OctaveMult(note, profile.rootHz)
      best == NearestRatio(note, profile.rootHz * octaveMult, profile.scaleRatios)
  IN Frac(note[1] * best[1], note[2] * best[2])

\* snapToScale(hz, profile)
snapToScale(hz, profile) ==
  LET note == LowerToRange(RaiseToRoot(hz, profile.rootHz), profile.rootHz)
      octaveMult == OctaveMult(note, profile.rootHz)
      best == NearestRatio(note, profile.rootHz * octaveMult, profile.scaleRatios)
  IN Frac(profile.rootHz * octaveMult * best[1], best[2])

\* Brightness is counted in halves (binToFrequency passes binIdx / 24 * 255),
\* so brightness / 255 * 3 is halves / OctaveSpan.
BrightnessOne == 2
OctaveSpan == 85 * BrightnessOne

RECURSIVE Pow2(_)
Pow2(n) == IF n = 0 THEN 1 ELSE 2 * Pow2(n - 1)

\* brightnessToFrequency without the octave shift.
brightnessToFrequencyOneOctave(halves, profile) ==
  LET degreeCount == Len(profile.scaleRatios)
      degree == ((halves % OctaveSpan) * degreeCount) \div OctaveSpan
      ratio == profile.scaleRatios[Min(degree, degreeCount - 1) + 1]
  IN Frac(profile.rootHz * ratio[1], ratio[2])

\* brightnessToFrequency(brightness, profile), with a profile
brightnessToFrequency(halves, profile) ==
  LET octaveShift == halves \div OctaveSpan
      degreeCount == Len(profile.scaleRatios)
      degree == ((halves % OctaveSpan) * degreeCount) \div OctaveSpan
      ratio == profile.scaleRatios[Min(degree, degreeCount - 1) + 1]
  IN Frac(profile.rootHz * Pow2(octaveShift) * ratio[1], ratio[2])

\* ============================================================ pixelSampler
\* sampleWindow reads, for each of the 24 bins, a window of WINDOW_COLS taps
\* (times rowsPerBin or colsPerBin) out of the image buffer.  An image is
\* [width, height, data] with data the pixels in buffer order, so the byte index
\* (cy * imageWidth + cx) * 4 is pixel cy * imageWidth + cx + 1 of data.
\* Luminances are in tenths, rowVariance in thousandths, spectrumBins in gain
\* units; sums are exact, the quotients are taken once at the end.
WINDOW_COLS == 7
HALF_WIN == WINDOW_COLS \div 2

\* The read without the clamp to the image.
Unclamped(v, size) == v

\* The clamp without its lower limit: Math.min(size - 1, v).
ClampOnlyAbove(v, size) == Min(size - 1, v)

\* Math.max(0, Math.min(size - 1, v))
ClampTo(v, size) == Max(0, Min(size - 1, v))

\* pixelData[idx] ?? 0, pixelData[idx + 1] ?? 0, pixelData[idx + 2] ?? 0
PixelAt(img, cx, cy) ==
  LET p == cy * img.width + cx
  IN IF p >= 0 /\ p < Len(img.data) THEN img.data[p + 1] ELSE [r |-> 0, g |-> 0, b |-> 0]

\* rWeight, gWeight, bWeight of tap column k = col + HALF_WIN, in sixths
RWeight(k) == Max(0, (WINDOW_COLS - 1) - 2 * k)
BWeight(k) == Max(0, 2 * k - (WINDOW_COLS - 1))
GWeight(k) == (WINDOW_COLS - 1) - Abs(2 * k - (WINDOW_COLS - 1))

\* One tap: the pixel read, its column in the window, and where it was read.
Tap(img, cx, cy, k) ==
  [px |-> PixelAt(img, ClampTo(cx, img.width), ClampTo(cy, img.height)), k |-> k,
   cx |-> ClampTo(cx, img.width), cy |-> ClampTo(cy, img.height)]

\* brightnessSamples summed, their squares summed, and binR + binG + binB
RECURSIVE SumLuma(_, _)
SumLuma(taps, i) ==
  IF i > Len(taps) THEN 0 ELSE Luma(taps[i].px) + SumLuma(taps, i + 1)

RECURSIVE SumLumaSq(_, _)
SumLumaSq(taps, i) ==
  IF i > Len(taps) THEN 0
  ELSE Luma(taps[i].px) * Luma(taps[i].px) + SumLumaSq(taps, i + 1)

RECURSIVE SumColour(_, _)
SumColour(taps, i) ==
  IF i > Len(taps) THEN 0
  ELSE taps[i].px.r * RWeight(taps[i].k) + taps[i].px.g * GWeight(taps[i].k)
         + taps[i].px.b * BWeight(taps[i].k) + SumColour(taps, i + 1)

\* The square root rounded up, by bisection.
RECURSIVE SqrtUpIn(_, _, _)
SqrtUpIn(x, lo, hi) ==
  IF lo >= hi THEN lo
  ELSE LET mid == (lo + hi) \div 2
       IN IF mid * mid >= x THEN SqrtUpIn(x, lo, mid) ELSE SqrtUpIn(x, mid + 1, hi)

SqrtUp(x) == SqrtUpIn(x, 0, 2550)

\* Math.min(Math.sqrt(variance) / 80, 1): the variance is
\* (n * sum of squares - (sum)^2) / n^2; rounded up, so 0 only when it is 0.
RowVarianceOf(taps) ==
  LET n == Len(taps)
      spread == n * SumLumaSq(taps, 1) - SumLuma(taps, 1) * SumLuma(taps, 1)
      deviation == SqrtUp((spread + n * n - 1) \div (n * n))
  IN Min((deviation * PerMille + 799) \div 800, PerMille)

\* Math.min((mean / 255) * colourWeight * 2.5, 1) with
\* colourWeight = (binR + binG + binB) / (n * WINDOW_COLS * 255) + 0.1
SpectrumOf(taps) ==
  LET n == Len(taps)
      mean == (SumLuma(taps, 1) * 100) \div (n * 255)
      colourWeight ==
        (SumColour(taps, 1) * PerMille) \div ((WINDOW_COLS - 1) * n * WINDOW_COLS * 255)
          + PerMille \div 10
  IN Min((mean * colourWeight * 3) \div 5, GainOne)

\* The taps of a bin (0-based) of sampleWindowHorizontal
HorizontalTaps(img, layer, absX, bin) ==
  LET rowsPerBin == Max(1, layer.height \div NUM_BINS)
      rowStart == layer.y + ((NUM_BINS - 1 - bin) * layer.height) \div NUM_BINS
  IN [i \in 1..(WINDOW_COLS * rowsPerBin) |->
        Tap(img, absX + ((i - 1) \div rowsPerBin) - HALF_WIN,
            rowStart + ((i - 1) % rowsPerBin), (i - 1) \div rowsPerBin)]

\* The taps of a bin of sampleWindowVertical
VerticalTaps(img, layer, absY, bin) ==
  LET colsPerBin == Max(1, layer.width \div NUM_BINS)
      colStart == layer.x + (bin * layer.width) \div NUM_BINS
  IN [i \in 1..(WINDOW_COLS * colsPerBin) |->
        Tap(img, colStart + ((i - 1) % colsPerBin),
            absY + ((i - 1) \div colsPerBin) - HALF_WIN, (i - 1) \div colsPerBin)]

\* a <= b * sqrt(2), for integers
LeqRoot2(a, b) ==
  IF a <= 0 THEN b >= 0 \/ a * a >= 2 * b * b
  ELSE b > 0 /\ a * a <= 2 * b * b

\* Math.round(c * sqrt(2) / 115): t * pxN for t = -halfSpread + bin * binStep,
\* halfSpread = min(width, height) * 0.4, binStep = halfSpread * 2 / 23, is
\* min(width, height) * (2 * bin - 23) * sqrt(2) / 115.
RoundRoot2(c) ==
  CHOOSE k \in (0 - (Abs(c) \div 50) - 1)..((Abs(c) \div 50) + 1) :
    /\ LeqRoot2((2 * k - 1) * 115, 2 * c)
    /\ ~LeqRoot2((2 * k + 1) * 115, 2 * c)

\* The taps of a bin of sampleWindowDiagonal
DiagonalTaps(img, layer, absX, absY, bin) ==
  LET down == layer.scanDirection = "diagonal-down"
      c == Min(layer.width, layer.height) * (2 * bin - (NUM_BINS - 1))
      cx0 == absX + RoundRoot2(c)
      cy0 == absY + RoundRoot2(IF down THEN 0 - c ELSE c)
  IN [i \in 1..WINDOW_COLS |->
        Tap(img, cx0 + (i - 1) - HALF_WIN,
            cy0 + ((i - 1) - HALF_WIN) * (IF down THEN 1 ELSE 0 - 1), i - 1)]

\* The dispatch of sampleWindow on layer.scanDirection
WindowTaps(img, layer, absX, absY, bin) ==
  IF layer.scanDirection = "vertical" THEN VerticalTaps(img, layer, absY, bin)
  ELSE IF layer.scanDirection \in {"diagonal-down", "diagonal-up"}
       THEN DiagonalTaps(img, layer, absX, absY, bin)
       ELSE HorizontalTaps(img, layer, absX, bin)

\* edgeCount: the bins whose mean differs from the previous bin's by more than 25
EdgeCount(img, layer, absX, absY) ==
  Cardinality({bin \in 1..(NUM_BINS - 1) :
    LET taps == WindowTaps(img, layer, absX, absY, bin)
        prev == WindowTaps(img, layer, absX, absY, bin - 1)
    IN Abs(SumLuma(taps, 1) - SumLuma(prev, 1)) > 250 * Len(taps)})

\* sampleWindow(pixelData, imageWidth, imageHeight, layer, absX, absY): the
\* fields of the sample that come from the bins
sampleWindow(img, layer, absX, absY) ==
  [spectrumBins |-> [i \in Bins |-> SpectrumOf(WindowTaps(img, layer, absX, absY, i - 1))],
   rowVariance |-> [i \in Bins |-> RowVarianceOf(WindowTaps(img, layer, absX, absY, i - 1))],
   edgeDensity |-> (EdgeCount(img, layer, absX, absY) * PerMille) \div NUM_BINS]

\* No pitch computed, no window sampled.
NoPitch == [op |-> "new"]
NoWindow == [op |-> "new"]

\* No trigger watched yet: no call made, no firing seen.
NoTrigger ==
  [op |-> "new", steps |-> 0, fired |-> FALSE, lastFire |-> 0 - 1, prevFire |-> 0 - 1,
   resetSince |-> FALSE, resetBefore |-> FALSE, edgeDensity |-> 0, contrast |-> 0,
   spectrumBins |-> [i \in Bins |-> 0], dt |-> 0]

\* No call made on the effects chain yet; log is the settings applied so far.
FxHistInit == [op |-> "new", steps |-> 0, log |-> <<>>, threw |-> FALSE]

\* The effects chain as its constructor leaves it; no image being analysed.
FxIdle ==
  /\ effects = NewEffectsChain(clock)
  /\ fxhist = FxHistInit
  /\ image = NoImage
  /\ analysed = NotAnalysed
  /\ tone = NoPitch
  /\ window = NoWindow
  /\ trig = NoTrigger

\* The settings the layer panel or a loaded save hands to applyEffects: the defaults, reverb
\* switched on at several decays (2.00, 2.04, 2.08 and 3.00 s: neighbours are
\* within the cache threshold of each other, 2.00 and 2.08 are not), reverb off
\* at another decay, and every effect switched on with values of its own.
ReverbOn(decay) == [DefaultEffects EXCEPT !.reverbEnabled = TRUE, !.reverbDecay = decay]

AllOn ==
  [reverbEnabled |-> TRUE, reverbMix |-> 600, reverbDecay |-> 200,
   delayEnabled |-> TRUE, delayTime |-> 250, delayFeedback |-> 500, delayMix |-> 700,
   distortionEnabled |-> TRUE, distortionAmount |-> 50,
   flangerEnabled |-> TRUE, flangerRate |-> 800, flangerDepth |-> 2000,
   flangerMix |-> 300,
   chorusEnabled |-> TRUE, chorusRate |-> 900, chorusDepth |-> 5000, chorusMix |-> 200,
   eqEnabled |-> TRUE, eqLowGain |-> 6, eqMidGain |-> 0 - 3, eqHighGain |-> 4,
   eqMidFreq |-> 2000]

\* Flanger and EQ enabled with the flanger fully wet, distortion and chorus off.
FlangerAndEq ==
  [AllOn EXCEPT !.distortionEnabled = FALSE, !.chorusEnabled = FALSE,
                !.flangerMix = PerMille]

FxSettings ==
  {DefaultEffects, [DefaultEffects EXCEPT !.reverbDecay = 300], AllOn, FlangerAndEq}
    \cup {ReverbOn(d) : d \in {200, 204, 208, 300}}

\* The audio clock moves on by 0.025 s (inside a ramp) or 0.2 s (past it).
FxClockSteps == {1, 8}

FxHist(op, fx, threw) ==
  [op |-> op, steps |-> fxhist.steps + 1,
   log |-> IF op = "applyEffects" THEN Append(fxhist.log, fx) ELSE fxhist.log,
   threw |-> threw]

NHistInit ==
  [op |-> "new", steps |-> 0, muted |-> FALSE, wasRamping |-> FALSE,
   wasSample |-> FALSE, wasConnected |-> TRUE, wasLoud |-> FALSE,
   torn |-> FALSE, threw |-> FALSE, stopRejects |-> FALSE]

GInit ==
  /\ granular = NewEngine
  /\ ghist = GHistInit
  /\ clock = 0
  /\ node = NewNode(0)
  /\ nhist = NHistInit
  /\ LoopInit
  /\ FxIdle

\* What a reset, clearBuffer or disconnect does to the bookkeeping of the run
\* of ticks since the last reset.
RunCleared(op) ==
  [ghist EXCEPT !.op = op, !.resets = @ + 1,
                !.runD = 0, !.sumDt = 0, !.attempts = 0]

GTick(d, dt) ==
  /\ ghist.ticks < MaxTicks
  /\ LET e == Tick(granular, d, dt)
         counted == granular.active /\ granular.buffer
         n == IF counted
              THEN (granular.grainTimer + dt - e.grainTimer) \div Interval(d)
              ELSE 0
     IN /\ granular' = e
        /\ ghist' = [ghist EXCEPT
              !.op = "tick", !.ticks = @ + 1,
              !.n = n, !.free = FreeCount(granular),
              !.started = Cardinality(e.grains) - Cardinality(granular.grains),
              !.runD = IF ~counted THEN @
                       ELSE IF @ = 0 \/ @ = d THEN d ELSE -1,
              !.sumDt = IF counted THEN @ + dt ELSE @,
              !.attempts = IF counted THEN @ + n ELSE @]
  /\ UNCHANGED <<nodeVars, loopVars, fxVars, analyzerVars, pureVars>>

GSetBuffer ==
  /\ ~granular.buffer
  /\ granular' = SetBuffer(granular)
  /\ ghist' = [ghist EXCEPT !.op = "setBuffer"]
  /\ UNCHANGED <<nodeVars, loopVars, fxVars, analyzerVars, pureVars>>

GReset ==
  /\ ghist.resets < MaxResets
  /\ granular' = Reset(granular)
  /\ ghist' = RunCleared("reset")
  /\ UNCHANGED <<nodeVars, loopVars, fxVars, analyzerVars, pureVars>>

GClearBuffer ==
  /\ ghist.resets < MaxResets
  /\ granular.buffer
  /\ granular' = ClearBuffer(granular)
  /\ ghist' = RunCleared("clearBuffer")
  /\ UNCHANGED <<nodeVars, loopVars, fxVars, analyzerVars, pureVars>>

GDisconnect ==
  /\ ghist.resets < MaxResets
  /\ granular.active
  /\ granular' = EngineDisconnect(granular)
  /\ ghist' = RunCleared("disconnect")
  /\ UNCHANGED <<nodeVars, loopVars, fxVars, analyzerVars, pureVars>>

\* Completion callbacks are delivered, in any order, to the grains started on the
\* first MaxEndSlot slots; the grains of the other slots stay in flight.
GOnEnded(g) ==
  /\ ghist.callbacks < MaxCallbacks
  /\ g.slot <= MaxEndSlot
  /\ granular' = OnEnded(granular, g)
  /\ ghist' = [ghist EXCEPT !.op = "onended", !.callbacks = @ + 1]
  /\ UNCHANGED <<nodeVars, loopVars, fxVars, analyzerVars, pureVars>>

GNext ==
  \/ \E d \in Densities, dt \in TickDts : GTick(d, dt)
  \/ GSetBuffer
  \/ GReset
  \/ GClearBuffer
  \/ GDisconnect
  \/ \E g \in granular.grains : GOnEnded(g)

SpecGranular == GInit /\ [][GNext]_vars

\* ---------------------------------------------------- claims on the slot pool

\* The grains started on slot i that are still sounding: fired, neither ended nor
\* stopped by a reset.
Sounding(i) == {g \in granular.grains : g.slot = i /\ g.playing}

\* C1: a slot is never given a new grain while a grain started on it earlier has
\* not completed: no slot carries two grains that are both still sounding.
C1_NoSlotReuseWhileBusy ==
  \A i \in 1..MAX_GRAINS : Cardinality(Sounding(i)) <= 1

\* C2: a grain releases its slot once: the completion callback of a grain whose
\* slot a reset has already released (the slot no longer holds that grain's
\* source) leaves the slot's busy flag, source and gain as they are.
C2_ReleaseExactlyOnce ==
  [][\A g \in granular.grains :
       (/\ ghist'.op = "onended"
        /\ granular'.grains = granular.grains \ {g}
        /\ granular.slots[g.slot].source # g.gen)
       => granular'.slots[g.slot] = granular.slots[g.slot]]_vars

\* C3: a tick that schedules n grains with f slots free starts exactly min(n, f)
\* of them, each on a slot of its own, and drops the rest; the busy slots never
\* number more than MAX_GRAINS.
C3_BurstAdmission ==
  /\ MAX_GRAINS - FreeCount(granular) <= MAX_GRAINS
  /\ ghist.op = "tick" =>
        /\ ghist.started = Min(ghist.n, ghist.free)
        /\ FreeCount(granular) = ghist.free - ghist.started

\* 40 grains scheduled on an empty pool: 32 start, 8 are dropped.
C3_Witness ==
  /\ ghist.op = "tick" /\ ghist.n = 40 /\ ghist.free = MAX_GRAINS
  /\ ghist.started = 32 /\ ghist.n - ghist.started = 8

Volumes == {700}
FrameDts == {4}
GrainRandoms == {400, 999}
Samples == {SampleDark, SampleBright}
ClockStarts == {0, 10}
ClockSteps == {8}

\* Some oscillator bin has an automation event scheduled after now (an envelope
\* under way).
BinsRamping(n, now) ==
  \E i \in Bins : \E j \in 1..Len(n.specGains[i]) : n.specGains[i][j].t > now

NHist(op, muted) ==
  [op |-> op, steps |-> nhist.steps + 1, muted |-> muted,
   wasRamping |-> BinsRamping(node, clock),
   wasSample |-> node.sampleBuffer,
   wasConnected |-> node.connected,
   wasLoud |-> \/ ~HeldAt(node.masterGain, 0)
               \/ ~HeldAt(node.sampleGain, 0)
               \/ ~HeldAt(node.sampleModeGain, 0),
   torn |-> IF op = "disconnect" THEN TRUE
            ELSE IF op = "advance" THEN nhist.torn ELSE FALSE,
   threw |-> FALSE, stopRejects |-> nhist.stopRejects]

\* stopRejects: the audio engine the page runs on rejects stop() on an
\* oscillator that is already stopped (it raises instead of ignoring the call).
NInit ==
  /\ clock \in ClockStarts
  /\ node = NewNode(clock)
  /\ \E rejects \in BOOLEAN : nhist = [NHistInit EXCEPT !.stopRejects = rejects]
  /\ granular = NewEngine
  /\ ghist = GHistInit
  /\ LoopInit
  /\ FxIdle

NSetModeParams(a) ==
  /\ nhist.steps < MaxNodeOps
  /\ node' = SetModeParams(node, ModeParams(a), clock)
  /\ nhist' = NHist("setModeParams", FALSE)
  /\ UNCHANGED <<clock, granularVars, loopVars, fxVars, analyzerVars, pureVars>>

NUpdateFromPixel(sample, volume, muted, dt, rnd) ==
  /\ nhist.steps < MaxNodeOps
  /\ node' = UpdateFromPixel(node, sample, volume, muted, dt, clock, rnd)
  /\ nhist' = NHist("updateFromPixel", muted)
  /\ UNCHANGED <<clock, granularVars, loopVars, fxVars, analyzerVars, pureVars>>

NSetSampleBuffer ==
  /\ nhist.steps < MaxNodeOps
  /\ ~node.sampleBuffer
  /\ node' = SetSampleBuffer(node, clock)
  /\ nhist' = NHist("setSampleBuffer", FALSE)
  /\ UNCHANGED <<clock, granularVars, loopVars, fxVars, analyzerVars, pureVars>>

NClearSample ==
  /\ nhist.steps < MaxNodeOps
  /\ node.sampleBuffer
  /\ node' = ClearSample(node, clock)
  /\ nhist' = NHist("clearSample", FALSE)
  /\ UNCHANGED <<clock, granularVars, loopVars, fxVars, analyzerVars, pureVars>>

\* disconnect(); threw: mangleRingOsc.stop() raised, which it does for an
\* oscillator already stopped on an engine that rejects the repeated stop().
NDisconnect(threw) ==
  /\ nhist.steps < MaxNodeOps
  /\ threw = (nhist.stopRejects /\ node.oscStopped)
  /\ node' = IF threw THEN NodeDisconnectThrown(node, clock)
             ELSE NodeDisconnect(node, clock)
  /\ effects' = IF threw THEN effects ELSE EffectsDisconnect(effects)
  /\ nhist' = [NHist("disconnect", FALSE) EXCEPT !.threw = threw]
  /\ UNCHANGED <<clock, fxhist, granularVars, loopVars, analyzerVars, pureVars>>

\* applyEffects(fx): handed to the node's effects chain.
NApplyEffects(fx) ==
  /\ nhist.steps < MaxNodeOps
  /\ effects' = ApplyEffects(effects, fx, clock)
  /\ fxhist' = FxHist("applyEffects", fx, FALSE)
  /\ nhist' = NHist("applyEffects", FALSE)
  /\ UNCHANGED <<node, clock, granularVars, loopVars, analyzerVars, pureVars>>

\* The audio clock (context.currentTime) moves on.
NAdvance(d) ==
  /\ nhist.steps < MaxNodeOps
  /\ clock' = clock + d
  /\ nhist' = NHist("advance", FALSE)
  /\ UNCHANGED <<node, granularVars, loopVars, fxVars, analyzerVars, pureVars>>

NNext ==
  \/ \E a \in Archetypes : NSetModeParams(a)
  \/ \E sample \in Samples, volume \in Volumes, muted \in BOOLEAN,
        dt \in FrameDts, rnd \in GrainRandoms :
          NUpdateFromPixel(sample, volume, muted, dt, rnd)
  \/ NSetSampleBuffer
  \/ NClearSample
  \/ \E threw \in BOOLEAN : NDisconnect(threw)
  \/ NApplyEffects(AllOn)
  \/ \E d \in ClockSteps : NAdvance(d)

SpecNode == NInit /\ [][NNext]_vars

\* -------------------------------------------------- claims on the synthesizer

\* C6: right after any setModeParams call, whatever the node was doing before,
\* every one of the 24 oscillator bin gains is 0 with nothing scheduled on it,
\* and the two mangle send gains are 0.
C6_ModeSwitchSilencesBins ==
  nhist.op = "setModeParams" =>
    /\ \A i \in Bins : HeldAt(node.specGains[i], 0)
    /\ HeldAt(node.mangleSend, 0)
    /\ HeldAt(node.sampleMangleSend, 0)

\* A mode switch made while a bin's release envelope was still under way.
C6_Witness ==
  /\ nhist.op = "setModeParams" /\ nhist.wasRamping
  /\ \A i \in Bins : HeldAt(node.specGains[i], 0)

\* What a silent updateFromPixel must leave behind: the master gain, the 24 bin
\* gains and both sample-path gains at 0, and the archetype state as it was.
SilentUpdateDone ==
  /\ HeldAt(node'.masterGain, 0)
  /\ \A i \in Bins : HeldAt(node'.specGains[i], 0)
  /\ HeldAt(node'.sampleGain, 0)
  /\ HeldAt(node'.sampleModeGain, 0)
  /\ node'.smoothedBins = node.smoothedBins
  /\ node'.grainTimer = node.grainTimer
  /\ node'.lastTriggerTime = node.lastTriggerTime
  /\ node'.sampleModeLevel = node.sampleModeLevel
  /\ node'.granular = node.granular

\* C7 as stated: every updateFromPixel call with muted = true, or made before
\* any mode was set, zeroes the master, bin and sample-path gains and runs no
\* archetype logic.
C7_SilentUpdateAlways ==
  [][(nhist'.op = "updateFromPixel"
      /\ (nhist'.muted \/ node.currentParams = NoParams)) => SilentUpdateDone]_vars

\* C7, on a node that has not been disconnected: an updateFromPixel call with
\* muted = true, or made before any mode was set, zeroes the master gain, the 24
\* bin gains and both sample-path gains, and leaves the smoothed bins, grain
\* timer, last-trigger time, sample level and granular engine unchanged.
C7_SilentUpdateWhileConnected ==
  [][(nhist'.op = "updateFromPixel" /\ node.connected
      /\ (nhist'.muted \/ node.currentParams = NoParams)) => SilentUpdateDone]_vars

\* A muted update of a connected node that was sounding, with a mode set and
\* smoothed bins above 0.
C7_Witness ==
  /\ nhist.op = "updateFromPixel" /\ nhist.muted
  /\ nhist.wasConnected /\ nhist.wasLoud
  /\ node.currentParams # NoParams
  /\ \E i \in Bins : node.smoothedBins[i] > 0
  /\ HeldAt(node.masterGain, 0)


\* ------------------------------------------------- the application, handlers
\* The ids addLayer gives out (each is new: a time stamp and a random suffix).
LayerIdSeq == <<"a", "b">>
Rects == {[x |-> 10, y |-> 20, width |-> 120, height |-> 60]}
RootOverrides == {0, 2}
ScaleOverrides == {"none", "minor"}
PitchSemitones == {0, 12}
ParamOverrides == {<<>>, <<"outputGain", 500>>}
MasterVolumes == {500}
Elapsed == {8}
LoopSamples == {SampleBright}
LoopRandoms == {999}

\* The frame delta is capped at 0.1 s.
DeltaCap == SecUnits \div 10

\* What the last frame is recorded to have found and done is kept until the
\* frame has written back, and dropped by the first handler that runs after.
LastFrameOf(h) ==
  IF inflight.frame THEN h
  ELSE [h EXCEPT !.changed = FALSE, !.rekeyed = FALSE, !.detected = FALSE,
                 !.pushed = {}, !.processed = {}, !.withNode = {},
                 !.staleBefore = {}, !.elapsed = 0, !.sampledAt = EmptyMap]

\* The bookkeeping of a user action.
LEdit(op) ==
  [LastFrameOf(lhist) EXCEPT !.op = op, !.edits = @ + 1,
                             !.editedSinceRead = @ \/ inflight.frame]

\* loadFile, first part: onBeforeLoad (App.handleImageBeforeLoad) stops playback,
\* silences the engine, disconnects every node and clears the node map; the
\* file is then read.
LImageBeforeLoad ==
  /\ lhist.edits < MaxEdits
  /\ ~inflight.image
  /\ store' = [store EXCEPT !.isPlaying = FALSE]
  /\ engineMaster' = SilenceAll(engineMaster, clock)
  /\ audioNodeMap' = EmptyMap
  /\ inflight' = [inflight EXCEPT !.image = TRUE]
  /\ lhist' = LEdit("imageBeforeLoad")
  /\ UNCHANGED <<lastProfileId, layerModeCache, clock, granularVars, node, nhist, fxVars, analyzerVars, pureVars>>

\* loadFile, second part: img.onload calls setImage with the analysed profile.
LSetImage(p) ==
  /\ inflight.image
  /\ store' = [store EXCEPT !.imageDataUrl = TRUE, !.cachedPixelData = TRUE,
                            !.imageProfile = p, !.layers = <<>>]
  /\ inflight' = [inflight EXCEPT !.image = FALSE]
  /\ lhist' = [LastFrameOf(lhist) EXCEPT !.op = "setImage",
                                         !.editedSinceRead = @ \/ inflight.frame]
  /\ UNCHANGED <<audioNodeMap, engineMaster, lastProfileId, layerModeCache, clock,
                 granularVars, node, nhist, fxVars, analyzerVars, pureVars>>

\* Toolbar: clearImage
LClearImage ==
  /\ lhist.edits < MaxEdits
  /\ store.imageDataUrl
  /\ store' = [store EXCEPT !.imageDataUrl = FALSE, !.cachedPixelData = FALSE,
                            !.imageProfile = 0, !.layers = <<>>,
                            !.rootOverride = 0, !.scaleOverride = "none"]
  /\ lhist' = LEdit("clearImage")
  /\ UNCHANGED <<audioNodeMap, engineMaster, lastProfileId, layerModeCache, inflight,
                 clock, granularVars, node, nhist, fxVars, analyzerVars, pureVars>>

\* The node App.handleLayerCreated makes for a new layer: tuned to the image
\* profile and given the params of its first mode, if there is a profile.
CreatedNode(st, now) ==
  IF st.imageProfile = 0 THEN CreateLayerNode(now)
  ELSE LET base == [rootHz |-> ProfileRootHz(st.imageProfile), shift |-> 0,
                    scale |-> ProfileScale(st.imageProfile)]
       IN SetModeParams(
            SetImageProfile(CreateLayerNode(now), Tuning(base, 0)),
            [ModeParams(GeneratedModes(st.imageProfile)[1].archetype) EXCEPT
               !.tuning = Tuning(base, 0)],
            now)

\* A rectangle is drawn: addLayer, then App.handleLayerCreated.
\* The compositions a save file may hold: one layer, saved in an earlier session
\* with its generated mode chosen.
SaveFiles ==
  {<<[NewLayer("s", rect, NewStore) EXCEPT !.generatedModeId = "tonal-0"]>> :
     rect \in Rects}

\* Toolbar.handleLoad once the file is read: loadSaveFile(save), then
\* handleSaveLoaded, which replaces every node by a fresh one per loaded layer
\* (the store's imageProfile is null by then, so no node is given params).
LLoadSave(save) ==
  /\ lhist.edits < MaxEdits
  /\ store' = [store EXCEPT !.imageDataUrl = TRUE, !.layers = save,
                            !.isPlaying = FALSE, !.imageProfile = 0]
  /\ audioNodeMap' = [id \in LayerIdsOf(save) |-> CreateLayerNode(clock)]
  /\ lhist' = LEdit("loadSave")
  /\ UNCHANGED <<engineMaster, lastProfileId, layerModeCache, inflight, clock,
                 granularVars, node, nhist, fxVars, analyzerVars, pureVars>>

LAddLayer(id, rect) ==
  /\ lhist.edits < MaxEdits
  /\ store.imageDataUrl
  /\ Cardinality(lhist.issued) < Len(LayerIdSeq)
  /\ id = LayerIdSeq[Cardinality(lhist.issued) + 1]
  /\ store' = [store EXCEPT !.layers = Append(@, NewLayer(id, rect, store))]
  /\ audioNodeMap' = [i \in DOMAIN audioNodeMap \cup {id} |->
                        IF i = id THEN CreatedNode(store, clock) ELSE audioNodeMap[i]]
  /\ lhist' = [LEdit("addLayer") EXCEPT !.issued = @ \cup {id}]
  /\ UNCHANGED <<engineMaster, lastProfileId, layerModeCache, inflight, clock,
                 granularVars, node, nhist, fxVars, analyzerVars, pureVars>>

\* The layer list's remove button and the context menu: removeLayer only.
LRemoveLayer(id) ==
  /\ lhist.edits < MaxEdits
  /\ id \in LayerIdsOf(store.layers)
  /\ store' = [store EXCEPT !.layers = RemoveLayer(@, id)]
  /\ lhist' = LEdit("removeLayer")
  /\ UNCHANGED <<audioNodeMap, engineMaster, lastProfileId, layerModeCache, inflight,
                 clock, granularVars, node, nhist, fxVars, analyzerVars, pureVars>>

\* The Delete key on the selected layer: its node is disconnected and dropped
\* from the node map, then removeLayer.
LDeleteKey(id) ==
  /\ lhist.edits < MaxEdits
  /\ id \in LayerIdsOf(store.layers)
  /\ store' = [store EXCEPT !.layers = RemoveLayer(@, id)]
  /\ audioNodeMap' = [i \in DOMAIN audioNodeMap \ {id} |-> audioNodeMap[i]]
  /\ lhist' = LEdit("deleteKey")
  /\ UNCHANGED <<engineMaster, lastProfileId, layerModeCache, inflight, clock,
                 granularVars, node, nhist, fxVars, analyzerVars, pureVars>>

\* A patch of one layer: toggleMute, setGeneratedMode, setParamOverride,
\* updateLayer({ pitchSemitones }); a control reports a value that differs from
\* the one it shows.
LPatchLayer(op, id, field, value) ==
  /\ lhist.edits < MaxEdits
  /\ id \in LayerIdsOf(store.layers)
  /\ store' = [store EXCEPT !.layers = MapLayer(@, id, field, value)]
  /\ lhist' = LEdit(op)
  /\ UNCHANGED <<audioNodeMap, engineMaster, lastProfileId, layerModeCache, inflight,
                 clock, granularVars, node, nhist, fxVars, analyzerVars, pureVars>>

LToggleMute(id) ==
  /\ id \in LayerIdsOf(store.layers)
  /\ LPatchLayer("toggleMute", id, "muted", ~LayerOf(store.layers, id).muted)

LSetGeneratedMode(id, i) ==
  /\ i <= Len(GeneratedModes(store.imageProfile))
  /\ \E j \in 1..Len(store.layers) :
        /\ store.layers[j].id = id
        /\ store.layers[j].generatedModeId # GeneratedModes(store.imageProfile)[i].id
  /\ LPatchLayer("setGeneratedMode", id, "generatedModeId",
                 GeneratedModes(store.imageProfile)[i].id)

LSetParamOverride(id, o) ==
  /\ store.imageProfile # 0
  /\ \E j \in 1..Len(store.layers) :
        store.layers[j].id = id /\ store.layers[j].paramOverrides # o
  /\ LPatchLayer("setParamOverride", id, "paramOverrides", o)

LSetPitch(id, semitones) ==
  /\ store.imageProfile # 0
  /\ \E j \in 1..Len(store.layers) :
        store.layers[j].id = id /\ store.layers[j].pitchSemitones # semitones
  /\ LPatchLayer("setPitch", id, "pitchSemitones", semitones)

\* KeyControl (shown while there is a profile): setRootOverride, setScaleOverride
LSetRootOverride(r) ==
  /\ lhist.edits < MaxEdits
  /\ store.imageProfile # 0
  /\ store.rootOverride # r
  /\ store' = [store EXCEPT !.rootOverride = r]
  /\ lhist' = LEdit("setRootOverride")
  /\ UNCHANGED <<audioNodeMap, engineMaster, lastProfileId, layerModeCache, inflight,
                 clock, granularVars, node, nhist, fxVars, analyzerVars, pureVars>>

LSetScaleOverride(s) ==
  /\ lhist.edits < MaxEdits
  /\ store.imageProfile # 0
  /\ store.scaleOverride # s
  /\ store' = [store EXCEPT !.scaleOverride = s]
  /\ lhist' = LEdit("setScaleOverride")
  /\ UNCHANGED <<audioNodeMap, engineMaster, lastProfileId, layerModeCache, inflight,
                 clock, granularVars, node, nhist, fxVars, analyzerVars, pureVars>>

\* TransportControls: handlePlay (after the resume), handlePause, handleStop
LPlay ==
  /\ lhist.edits < MaxEdits
  /\ ~store.isPlaying
  /\ engineMaster' = RestoreVolume(engineMaster, store.masterVolume, clock)
  /\ store' = [store EXCEPT !.isPlaying = TRUE]
  /\ lhist' = LEdit("play")
  /\ UNCHANGED <<audioNodeMap, lastProfileId, layerModeCache, inflight, clock,
                 granularVars, node, nhist, fxVars, analyzerVars, pureVars>>

LPause ==
  /\ lhist.edits < MaxEdits
  /\ store.isPlaying
  /\ store' = [store EXCEPT !.isPlaying = FALSE]
  /\ engineMaster' = SilenceAll(engineMaster, clock)
  /\ lhist' = LEdit("pause")
  /\ UNCHANGED <<audioNodeMap, lastProfileId, layerModeCache, inflight, clock,
                 granularVars, node, nhist, fxVars, analyzerVars, pureVars>>

LStop ==
  /\ lhist.edits < MaxEdits
  /\ store' = [store EXCEPT !.isPlaying = FALSE,
                            !.layers = [i \in 1..Len(store.layers) |->
                                           [store.layers[i] EXCEPT !.scanX = 0]]]
  /\ engineMaster' = SilenceAll(engineMaster, clock)
  /\ lhist' = LEdit("stop")
  /\ UNCHANGED <<audioNodeMap, lastProfileId, layerModeCache, inflight, clock,
                 granularVars, node, nhist, fxVars, analyzerVars, pureVars>>

\* MasterVolume.handleChange
LSetMasterVolume(vol) ==
  /\ lhist.edits < MaxEdits
  /\ store.masterVolume # vol
  /\ store' = [store EXCEPT !.masterVolume = vol]
  /\ engineMaster' = SetMasterVolume(engineMaster, vol, clock)
  /\ lhist' = LEdit("setMasterVolume")
  /\ UNCHANGED <<audioNodeMap, lastProfileId, layerModeCache, inflight, clock,
                 granularVars, node, nhist, fxVars, analyzerVars, pureVars>>

\* ------------------------------------------------- the application, the frame
\* The run of consecutive playing frames a layer is in: the frames since its
\* cache key last changed or a profile change was last detected (that frame is
\* the run's first).  Kept are the run's key, its length so far, the
\* setModeParams calls its frames made, and whether one of them came after the
\* first frame.  A frame that does not process the layer ends its run.
RunAfter(st, nodes, cache, lastId, run) ==
  [id \in {st.layers[i].id : i \in Processed(st, nodes)} |->
     LET layer == st.layers[CHOOSE i \in Processed(st, nodes) : st.layers[i].id = id]
         called == IF ModePushDue(st, cache, layer) THEN 1 ELSE 0
     IN IF /\ ~ProfileChanged(st, lastId)
           /\ id \in DOMAIN run
           /\ run[id].key = CacheKey(layer)
        THEN [key |-> CacheKey(layer), len |-> run[id].len + 1,
              calls |-> run[id].calls + called,
              late |-> run[id].late \/ called = 1]
        ELSE [key |-> CacheKey(layer), len |-> 1, calls |-> called, late |-> FALSE]]

\* What a frame does before its write-back, e time units after the last event:
\* profile push, mode pushes, updateFromPixel on every processed layer.
FrameBody(op, e, sample, rnd) ==
  LET now == clock + e
      delta == Min(e, DeltaCap)
      cache1 == IF ProfileChanged(store, lastProfileId) THEN EmptyMap ELSE layerModeCache
  IN /\ lhist.frames < MaxFrames
     /\ ~inflight.frame
     /\ clock' = now
     /\ audioNodeMap' = FrameNodes(store, audioNodeMap, layerModeCache, lastProfileId,
                                   sample, delta, now, rnd)
     /\ layerModeCache' = FrameCache(store, audioNodeMap, layerModeCache, lastProfileId)
     /\ lastProfileId' = IF ProfileChanged(store, lastProfileId)
                         THEN ProfileIdOf(store) ELSE lastProfileId
     /\ lhist' = [lhist EXCEPT
           !.op = op, !.frames = @ + 1,
           !.seen = <<store.imageProfile, store.rootOverride, store.scaleOverride>>,
           !.changed = (lhist.seen # <<store.imageProfile, store.rootOverride,
                                       store.scaleOverride>>),
           !.rekeyed = /\ lhist.seen[1] # 0 /\ store.imageProfile # 0
                       /\ <<ProfileRootHz(lhist.seen[1]), ProfileScale(lhist.seen[1]),
                             lhist.seen[2], lhist.seen[3]>>
                            # <<ProfileRootHz(store.imageProfile),
                                ProfileScale(store.imageProfile),
                                store.rootOverride, store.scaleOverride>>,
           !.detected = ProfileChanged(store, lastProfileId),
           !.pushed = {store.layers[i].id : i \in
                         {j \in Processed(store, audioNodeMap) :
                            ModePushDue(store, cache1, store.layers[j])}},
           !.processed = {store.layers[i].id : i \in Processed(store, audioNodeMap)},
           !.withNode = DOMAIN audioNodeMap,
           !.staleBefore = DOMAIN layerModeCache,
           !.elapsed = e,
           !.sampledAt = [id \in {store.layers[i].id : i \in Processed(store, audioNodeMap)} |->
                            SamplePoint(LayerOf(store.layers, id), delta)],
           !.run = RunAfter(store, audioNodeMap, cache1, lastProfileId, lhist.run),
           !.editedSinceRead = FALSE]
     /\ UNCHANGED <<engineMaster, granularVars, node, nhist, fxVars, analyzerVars, pureVars>>

\* A frame (startLoop.tick), from its read of the store to its write-back.
LFrame(e, sample, rnd) ==
  /\ FrameBody("frame", e, sample, rnd)
  /\ store' = [store EXCEPT !.layers =
                 WriteBack(@, ScanUpdates(store, audioNodeMap, Min(e, DeltaCap)))]
  /\ UNCHANGED inflight

\* The frame up to its write-back, and the write-back, with the store open to
\* the handlers in between.
LFrameRead(e, sample, rnd) ==
  /\ FrameBody("read", e, sample, rnd)
  /\ inflight' = [inflight EXCEPT
        !.frame = PlayingBranch(store),
        !.scanUpdates = ScanUpdates(store, audioNodeMap, Min(e, DeltaCap))]
  /\ UNCHANGED store

LFrameWrite ==
  /\ inflight.frame
  /\ store' = [store EXCEPT !.layers = WriteBack(@, inflight.scanUpdates)]
  /\ inflight' = [inflight EXCEPT !.frame = FALSE, !.scanUpdates = EmptyMap]
  /\ lhist' = [lhist EXCEPT !.op = "write"]
  /\ UNCHANGED <<audioNodeMap, engineMaster, lastProfileId, layerModeCache, clock,
                 granularVars, node, nhist, fxVars, analyzerVars, pureVars>>

LEdits ==
  \/ LImageBeforeLoad
  \/ \E p \in Profiles : LSetImage(p)
  \/ LClearImage
  \/ \E save \in SaveFiles : LLoadSave(save)
  \/ \E id \in {LayerIdSeq[i] : i \in 1..Len(LayerIdSeq)}, rect \in Rects : LAddLayer(id, rect)
  \/ \E id \in LayerIdsOf(store.layers) : LRemoveLayer(id)
  \/ \E id \in LayerIdsOf(store.layers) : LDeleteKey(id)
  \/ \E id \in LayerIdsOf(store.layers) : LToggleMute(id)
  \/ \E id \in LayerIdsOf(store.layers), i \in 1..3 : LSetGeneratedMode(id, i)
  \/ \E id \in LayerIdsOf(store.layers), o \in ParamOverrides : LSetParamOverride(id, o)
  \/ \E id \in LayerIdsOf(store.layers), s \in PitchSemitones : LSetPitch(id, s)
  \/ \E r \in RootOverrides : LSetRootOverride(r)
  \/ \E s \in ScaleOverrides : LSetScaleOverride(s)
  \/ LPlay
  \/ LPause
  \/ LStop
  \/ \E vol \in MasterVolumes : LSetMasterVolume(vol)

LInit ==
  /\ LoopInit
  /\ clock = 0
  /\ granular = NewEngine
  /\ ghist = GHistInit
  /\ node = NewNode(0)
  /\ nhist = NHistInit
  /\ FxIdle

LNext ==
  \/ LEdits
  \/ \E e \in Elapsed, sample \in LoopSamples, rnd \in LoopRandoms : LFrame(e, sample, rnd)

SpecLoop == LInit /\ [][LNext]_vars

LSplitNext ==
  \/ LEdits
  \/ \E e \in Elapsed, sample \in LoopSamples, rnd \in LoopRandoms :
        LFrameRead(e, sample, rnd)
  \/ LFrameWrite

SpecLoopSplit == LInit /\ [][LSplitNext]_vars

\* ------------------------------------------------ the scan head, frame by frame

\* The rectangles, scan speeds (px/s), scan directions and frame intervals the
\* scan is driven with; the longest interval is one second.
ScanRects == {[x |-> 10, y |-> 20, width |-> 120, height |-> 60],
              [x |-> 3, y |-> 7, width |-> 4, height |-> 5],
              [x |-> 5, y |-> 6, width |-> 0, height |-> 0]}
ScanSpeeds == {60, 500}
ScanDirections == {"horizontal", "vertical", "diagonal-down", "diagonal-up"}
ScanElapsed == {1, 4, SecUnits}

\* A store with an image loaded and one layer drawn.
StoreWithLayer(layer) ==
  [NewStore EXCEPT !.imageDataUrl = TRUE, !.cachedPixelData = TRUE,
                   !.imageProfile = 1, !.layers = <<layer>>]

\* The application with an image loaded, one layer drawn, its speed and direction
\* chosen, its scan head at the start or three pixels (horizontal, in a rectangle
\* that wide) or a fortieth (otherwise) before the end of its travel, and
\* playback not yet started.
SInit ==
  /\ \E rect \in ScanRects, speed \in ScanSpeeds, dir \in ScanDirections,
        atEnd \in BOOLEAN :
        LET fresh == NewLayer("a", rect, StoreWithLayer(<<>>))
            w == Max(rect.width, 1)
            x == IF atEnd /\ dir = "horizontal" THEN Max(w - 3, 0) * SecUnits ELSE 0
            pos == IF ~atEnd THEN 0
                   ELSE IF dir = "horizontal" THEN (x * (PosOne \div SecUnits)) \div w
                   ELSE PosOne - PosOne \div 40
        IN /\ store = StoreWithLayer([fresh EXCEPT !.scanSpeed = speed,
                                                    !.scanDirection = dir,
                                                    !.scanX = x, !.scanPos = pos])
           /\ audioNodeMap = [id \in {"a"} |-> CreatedNode(StoreWithLayer(fresh), 0)]
  /\ engineMaster = NewEngineMaster
  /\ lastProfileId = <<>>
  /\ layerModeCache = EmptyMap
  /\ inflight = NothingInFlight
  /\ lhist = [LHistInit EXCEPT !.issued = {"a"}]
  /\ clock = 0
  /\ granular = NewEngine
  /\ ghist = GHistInit
  /\ node = NewNode(0)
  /\ nhist = NHistInit
  /\ FxIdle

SNext ==
  \/ LPlay
  \/ LPause
  \/ LStop
  \/ \E e \in ScanElapsed, sample \in LoopSamples, rnd \in LoopRandoms : LFrame(e, sample, rnd)

SpecScan == SInit /\ [][SNext]_vars

\* The frame moved the horizontal scan head of every layer it processed by
\* scanSpeed times dt, wrapped at the width, and sampled at the rectangle's
\* vertical midpoint.
HorizontalAdvance(dt) ==
  \A i \in 1..Len(store.layers) :
    (store.layers[i].id \in lhist'.processed
       /\ store.layers[i].scanDirection = "horizontal")
      => /\ store'.layers[i].scanX =
              (store.layers[i].scanX + store.layers[i].scanSpeed * dt)
                % (Max(store.layers[i].width, 1) * SecUnits)
         /\ lhist'.sampledAt[store.layers[i].id][2] =
              (2 * store.layers[i].y + store.layers[i].height) \div 2

\* C14 as stated: a frame advances the horizontal scan head by scanSpeed times
\* the time elapsed since the previous frame, modulo the width (60 px/s, 120 px,
\* 1.0 s: from 0 to 60), and samples at absY = floor(y + height/2).
C14_ScanAdvanceByElapsed ==
  [][lhist'.op = "frame" => HorizontalAdvance(clock' - clock)]_vars

\* C14, with the frame delta of the code: the elapsed time capped at 0.1 s.
C14_ScanAdvanceByCappedDelta ==
  [][lhist'.op = "frame" => HorizontalAdvance(Min(clock' - clock, DeltaCap))]_vars

\* The first frame of a layer 120 px wide scanning horizontally at 60 px/s from
\* 0, one second after the loop started: the head is at 6 px.
C14_Witness ==
  /\ lhist.op = "frame" /\ lhist.frames = 1 /\ lhist.elapsed = SecUnits
  /\ \E i \in 1..Len(store.layers) :
        /\ store.layers[i].id \in lhist.processed
        /\ store.layers[i].scanDirection = "horizontal"
        /\ store.layers[i].scanSpeed = 60 /\ store.layers[i].width = 120
        /\ store.layers[i].scanX = 6 * SecUnits
        /\ lhist.sampledAt[store.layers[i].id] = <<16, 50>>

\* -------------------------------------------------- claims on the frame loop

\* C5: the write-back of a frame changes nothing in the store but the scanX and
\* scanPos of the layers the frame processed: the layers are those the store
\* holds when the write is made, in the same order, every other field as the
\* store holds it then (whatever was edited since the frame read its snapshot),
\* and a layer that had no synthesizer when the frame read is left as it is.
C5_WriteBackScanFieldsOnly ==
  [][lhist'.op = "write" =>
       /\ store' = [store EXCEPT !.layers = store'.layers]
       /\ Len(store'.layers) = Len(store.layers)
       /\ \A i \in 1..Len(store.layers) :
             /\ store'.layers[i] = [store.layers[i] EXCEPT
                                      !.scanX = store'.layers[i].scanX,
                                      !.scanPos = store'.layers[i].scanPos]
             /\ store.layers[i].id \notin lhist.processed
                  => store'.layers[i] = store.layers[i]
             /\ store.layers[i].id \notin lhist.withNode
                  => store'.layers[i] = store.layers[i]]_vars

\* A write-back made after the store was edited behind the frame's back, which
\* moved the scan head of a processed layer.
C5_Witness ==
  /\ lhist.op = "write" /\ lhist.editedSinceRead
  /\ \E i \in 1..Len(store.layers) :
        store.layers[i].id \in lhist.processed /\ store.layers[i].scanX > 0
  /\ \E i \in 1..Len(store.layers) : store.layers[i].id \notin lhist.processed

\* Every gain of a layer synthesizer that carries sound is 0, nothing scheduled.
NodeSilent(n) ==
  /\ HeldAt(n.masterGain, 0)
  /\ \A i \in Bins : HeldAt(n.specGains[i], 0)
  /\ HeldAt(n.sampleGain, 0)
  /\ HeldAt(n.sampleModeGain, 0)

\* C8: when the pause or stop handler returns, the engine master gain and the
\* gains of every layer synthesizer are 0 with their scheduled ramps cancelled.
C8_StopZeroesEveryGain ==
  lhist.op \in {"pause", "stop"} =>
    /\ HeldAt(engineMaster, 0)
    /\ \A id \in DOMAIN audioNodeMap : NodeSilent(audioNodeMap[id])

\* C9: within a run of consecutive playing frames over which a layer's cache key
\* (mode id, overrides, pitch) stays the same and no profile change is detected,
\* the frames call setModeParams on the layer's synthesizer at most once, and
\* only on the run's first frame.
C9_ModePushOncePerRun ==
  \A id \in DOMAIN lhist.run : lhist.run[id].calls <= 1 /\ ~lhist.run[id].late

\* A run of two frames or more whose first frame made the one call.
C9_Witness ==
  /\ lhist.op = "frame"
  /\ \E id \in DOMAIN lhist.run : lhist.run[id].len >= 2 /\ lhist.run[id].calls = 1

\* After a frame's profile push every node of the node map is tuned to the
\* effective profile (moved by the layer's pitch where the frame also pushed mode
\* params), and the mode cache holds only what this frame put there.
ProfilePushDone ==
  /\ \A id \in DOMAIN audioNodeMap :
        /\ audioNodeMap[id].tuning[1] = EffectiveProfile(store).rootHz
        /\ audioNodeMap[id].tuning[3] = EffectiveProfile(store).scale
        /\ id \in lhist.pushed \/ audioNodeMap[id].tuning[2] = EffectiveProfile(store).shift
  /\ DOMAIN layerModeCache \subseteq lhist.pushed

ModulatedAfterModePush(id) ==
  LET n == audioNodeMap[id]
      l == LayerOf(store.layers, id)
  IN /\ n.currentParams =
          EffectiveParams(store, l, FindMode(store.imageProfile, l.generatedModeId))
     /\ n.lastDt \in {Min(e, DeltaCap) : e \in Elapsed}
     /\ ~l.muted => \E i \in Bins : n.smoothedBins[i] > 0

\* C11 as stated: in a frame that makes all three pushes to a layer's node, the
\* order is setModeParams, setImageProfile, updateFromPixel: the node ends the
\* frame tuned as setImageProfile tunes it (to the effective profile, without
\* the layer's pitch) and modulated after the mode push.
C11_ModeThenRetuneThenModulate ==
  lhist.op = "frame" /\ lhist.detected =>
    \A id \in lhist.pushed :
      /\ audioNodeMap[id].tuning = Tuning(EffectiveProfile(store), 0)
      /\ ModulatedAfterModePush(id)

\* C11, in the order of the code: setImageProfile, setModeParams,
\* updateFromPixel: the node ends the frame tuned as setModeParams tunes it (to
\* the effective profile moved by the layer's pitch) and modulated after the
\* mode push.
C11_RetuneThenModeThenModulate ==
  lhist.op = "frame" /\ lhist.detected =>
    \A id \in lhist.pushed :
      /\ audioNodeMap[id].tuning
           = Tuning(EffectiveProfile(store), LayerOf(store.layers, id).pitchSemitones)
      /\ ModulatedAfterModePush(id)

\* A frame that made the three pushes to the node of an unmuted, pitched layer.
C11_Witness ==
  /\ lhist.op = "frame" /\ lhist.detected
  /\ \E id \in lhist.pushed :
        /\ LayerOf(store.layers, id).pitchSemitones # 0
        /\ ~LayerOf(store.layers, id).muted
        /\ ModulatedAfterModePush(id)

\* C12: in a playing frame whose mode push to a layer is due (its cache key
\* differs from the cached one and its mode resolves), setModeParams is applied
\* before the frame's updateFromPixel; and after every playing frame the node
\* of a processed layer whose mode resolves holds the params of the mode the
\* layer record names, never those of the mode it named before.
C12_ModePushBeforeModulation ==
  lhist.op = "frame" =>
    /\ \A id \in lhist.pushed : ModulatedAfterModePush(id)
    /\ \A id \in lhist.processed :
          LET l == LayerOf(store.layers, id)
          IN FindMode(store.imageProfile, l.generatedModeId) # 0
               => audioNodeMap[id].currentParams =
                    EffectiveParams(store, l, FindMode(store.imageProfile, l.generatedModeId))

\* A frame that found a layer switched to another mode since the frame before,
\* and drove its node with the new mode's params.
C12_Witness ==
  /\ lhist.op = "frame" /\ ~lhist.detected
  /\ \E id \in lhist.pushed \cap lhist.staleBefore :
        /\ LayerOf(store.layers, id).generatedModeId
             # GeneratedModes(store.imageProfile)[1].id
        /\ ~LayerOf(store.layers, id).muted
        /\ ModulatedAfterModePush(id)

\* The layer's generatedModeId resolves to no mode of the store's profile.
Unresolved(layer) == FindMode(store.imageProfile, layer.generatedModeId) = 0

FxInit ==
  /\ clock \in ClockStarts
  /\ FxIdle
  /\ node = NewNode(clock)
  /\ nhist = NHistInit
  /\ granular = NewEngine
  /\ ghist = GHistInit
  /\ LoopInit

\* The layer panel changes an effect setting of a layer whose synthesizer is in
\* the node map: AudioLayerNode.applyEffects hands it to the chain.
FApplyEffects(fx) ==
  /\ fxhist.steps < MaxFxOps
  /\ effects.wired
  /\ effects' = ApplyEffects(effects, fx, clock)
  /\ fxhist' = FxHist("applyEffects", fx, FALSE)
  /\ UNCHANGED <<nodeVars, granularVars, loopVars, analyzerVars, pureVars>>

\* EffectsChain.disconnect(); threw: flangerLFO.stop() raised.
FDisconnect(threw) ==
  /\ fxhist.steps < MaxFxOps
  /\ threw => effects.lfoStopped
  /\ effects' = IF threw THEN EffectsDisconnectThrown(effects) ELSE EffectsDisconnect(effects)
  /\ fxhist' = FxHist("disconnect", DefaultEffects, threw)
  /\ UNCHANGED <<nodeVars, granularVars, loopVars, analyzerVars, pureVars>>

FAdvance(d) ==
  /\ fxhist.steps < MaxFxOps
  /\ clock' = clock + d
  /\ fxhist' = FxHist("advance", DefaultEffects, FALSE)
  /\ UNCHANGED <<effects, node, nhist, granularVars, loopVars, analyzerVars, pureVars>>

FNext ==
  \/ \E fx \in FxSettings : FApplyEffects(fx)
  \/ \E threw \in BOOLEAN : FDisconnect(threw)
  \/ \E d \in FxClockSteps : FAdvance(d)

SpecFx == FxInit /\ [][FNext]_vars

\* The settings of the last applyEffects call.
LastApplied == fxhist.log[Len(fxhist.log)]

\* C15: after any sequence of applyEffects calls whose last call has
\* reverbEnabled = false, the reverb wet gain settles at 0: the last event on its
\* timeline takes it to 0 and nothing is scheduled after it.
C15_ReverbOffSettlesAtZero ==
  (Len(fxhist.log) > 0 /\ ~LastApplied.reverbEnabled) => Heading(effects.reverbWet) = 0

\* reverb off, on, off: the wet gain was taken to the mix and then back to 0.
C15_Witness ==
  /\ Len(fxhist.log) = 3
  /\ ~fxhist.log[1].reverbEnabled /\ fxhist.log[2].reverbEnabled
  /\ ~fxhist.log[3].reverbEnabled
  /\ \E j \in 1..Len(effects.reverbWet) : effects.reverbWet[j].v = 300
  /\ Heading(effects.reverbWet) = 0

\* The call before this step was an applyEffects with reverb enabled.
ReverbWasOn == Len(fxhist.log) > 0 /\ LastApplied.reverbEnabled

\* The decay the impulse response in use was built with (its length in seconds;
\* every decay applied here is above the 0.1 s floor of the length).
BuiltWith(c) == c.reverbBuffer.length

\* C16: while reverb stays enabled, an applyEffects call rebuilds the impulse
\* response only if reverbDecay differs by more than 0.05 s from the decay the
\* current impulse response was built with (and then it does rebuild); the call
\* that enables reverb builds one, and applying the same reverbDecay again builds
\* none: exactly one build.
C16_RebuildOnlyWhenDecayMoves ==
  [][(fxhist'.op = "applyEffects" /\ fxhist'.log[Len(fxhist'.log)].reverbEnabled) =>
       LET fx == fxhist'.log[Len(fxhist'.log)]
           rebuilt == effects'.reverbBuffer # effects.reverbBuffer
           apart == IF fx.reverbDecay >= BuiltWith(effects)
                    THEN fx.reverbDecay - BuiltWith(effects)
                    ELSE BuiltWith(effects) - fx.reverbDecay
       IN /\ effects'.builds = effects.builds + (IF rebuilt THEN 1 ELSE 0)
          /\ rebuilt => BuiltWith(effects') = fx.reverbDecay
          /\ ReverbWasOn => (rebuilt <=> apart > DecayStep)
          /\ ~ReverbWasOn => rebuilt
          /\ (ReverbWasOn /\ LastApplied.reverbDecay = fx.reverbDecay) => ~rebuilt]_vars

\* Reverb enabled at 2.00 s, the same settings applied again: one build; then
\* 2.04 s keeps the response built for 2.00 s.
C16_Witness ==
  /\ fxhist.op = "applyEffects"
  /\ fxhist.log = <<ReverbOn(200), ReverbOn(200), ReverbOn(204)>>
  /\ effects.builds = 1
  /\ BuiltWith(effects) = 200

\* The AudioParams of the chain that applyEffects schedules on.
FxParams ==
  {"distortionWet", "distortionBypass", "eqLowGain", "eqMidGain", "eqHighGain",
   "eqMidFreq", "eqWet", "eqBypass", "flangerRate", "flangerDepth", "flangerWet",
   "flangerBypass", "chorusRate", "chorusDepth", "chorusWet", "chorusBypass",
   "delayTime", "delayFeedback", "delayWet", "delayDry", "reverbWet", "reverbDry"}

\* What the chain is heading for: the value every parameter ends at, the
\* distortion curve, the cached reverb decay and the impulse response in use.
Settled(c) ==
  [targets |-> [p \in FxParams |-> Heading(c[p])],
   curve |-> c.distortionCurve,
   lastReverbDecay |-> c.lastReverbDecay,
   reverbBuffer |-> c.reverbBuffer]

\* C17: applyEffects is idempotent: a call with the settings of the call before
\* it (whatever the chain was before that, and however long after it) leaves
\* every gain and parameter target, the distortion curve, the cached reverb decay
\* and the impulse response in use as the first call left them.
C17_ApplyEffectsIdempotent ==
  [][(/\ fxhist'.op = "applyEffects"
      /\ Len(fxhist.log) > 0
      /\ fxhist'.log[Len(fxhist'.log)] = LastApplied)
     => Settled(effects') = Settled(effects)]_vars

\* Every effect switched on and applied twice, on a chain whose reverb had been
\* built for another decay: the second call changed nothing.
C17_Witness ==
  /\ fxhist.op = "applyEffects"
  /\ fxhist.log = <<ReverbOn(300), AllOn, AllOn>>
  /\ effects.builds = 2
  /\ Settled(effects).targets["reverbWet"] = 600
  /\ Settled(effects).targets["flangerBypass"] = 700
  /\ Settled(effects).curve = MakeDistortionCurve(50)

Palette ==
  {[r |-> 0, g |-> 0, b |-> 0], [r |-> 255, g |-> 255, b |-> 255],
   [r |-> 200, g |-> 30, b |-> 30], [r |-> 20, g |-> 40, b |-> 220],
   [r |-> 128, g |-> 128, b |-> 128]}

ImageSizes == {<<1, 1>>, <<2, 2>>, <<4, 2>>, <<3, 3>>, <<4, 3>>, <<4, 4>>}

StripeWidths == {1, 2, 4}

Striped(size, a, b, w) ==
  [width |-> size[1], height |-> size[2],
   data |-> [i \in 1..(size[1] * size[2]) |-> IF ((i - 1) \div w) % 2 = 0 THEN a ELSE b]]

Images ==
  {Striped(size, a, b, w) : size \in ImageSizes, a \in Palette, b \in Palette,
                            w \in StripeWidths}

AInit ==
  /\ image \in Images
  /\ analysed = NotAnalysed
  /\ tone = NoPitch
  /\ window = NoWindow
  /\ trig = NoTrigger
  /\ effects = NewEffectsChain(0)
  /\ fxhist = FxHistInit
  /\ clock = 0
  /\ node = NewNode(0)
  /\ nhist = NHistInit
  /\ granular = NewEngine
  /\ ghist = GHistInit
  /\ LoopInit

\* setImage hands the decoded pixels to analyzeImage.
AAnalyze ==
  /\ ~analysed.done
  /\ analysed' = AnalyzeImage(image)
  /\ UNCHANGED <<image, nodeVars, granularVars, loopVars, fxVars, pureVars>>

ANext == AAnalyze

SpecAnalyze == AInit /\ [][ANext]_vars

\* Every pixel of the image is RGB 0, 0, 0.
FullyDark == \A i \in 1..Len(image.data) : image.data[i] = [r |-> 0, g |-> 0, b |-> 0]

Modes == analysed.generatedModes

\* C19: analyzeImage returns between 3 and 5 generated modes, each score at
\* least the score after it, and a mode ranked 4th or 5th has a score of at
\* least 0.25.
C19_ModesSortedAndThresholded ==
  analysed.done =>
    /\ Len(Modes) \in MIN_MODES..MAX_MODES
    /\ \A i \in 1..(Len(Modes) - 1) :
         /\ Modes[i].score # NaN /\ Modes[i + 1].score # NaN
         /\ Modes[i].score >= Modes[i + 1].score
    /\ \A i \in (MIN_MODES + 1)..Len(Modes) :
         Modes[i].score # NaN /\ Modes[i].score >= THRESHOLD

\* The same for the images that have a pixel 8 further on for the spatial walk
\* to compare with (more than 8 pixels).
C19_SortedWhenWalked ==
  (analysed.done /\ Len(image.data) > 8) =>
    /\ Len(Modes) \in MIN_MODES..MAX_MODES
    /\ \A i \in 1..(Len(Modes) - 1) :
         /\ Modes[i].score # NaN /\ Modes[i + 1].score # NaN
         /\ Modes[i].score >= Modes[i + 1].score
    /\ \A i \in (MIN_MODES + 1)..Len(Modes) :
         Modes[i].score # NaN /\ Modes[i].score >= THRESHOLD

\* What analyzeImage reports of a fully dark image apart from the ranking:
\* warmth 0.5, saturation 0, contrast 0.
DarkScalars ==
  /\ analysed.profile.warmth = PerMille \div 2
  /\ analysed.profile.saturation = 0
  /\ analysed.profile.contrast = 0

PitchRoots == {110, 185, 196}

PitchProfiles ==
  {[rootHz |-> r, scale |-> sc, scaleRatios |-> SCALES[sc]] :
     r \in PitchRoots, sc \in DOMAIN SCALES}

PitchInputs ==
  {Frac(n, 1) : n \in {1, 27, 55, 109, 110, 111, 130, 165, 200, 219, 220, 221, 330,
                       391, 392, 439, 440, 441, 600, 783, 784, 880, 1000, 4186}}
    \cup {Frac(415, 2), Frac(1, 3), Frac(1319, 4)}

Brightnesses == 0..(255 * BrightnessOne)

BrightnessSteps == {1, BrightnessOne, OctaveSpan}

PInit ==
  /\ tone = NoPitch
  /\ window = NoWindow
  /\ trig = NoTrigger
  /\ image = NoImage
  /\ analysed = NotAnalysed
  /\ effects = NewEffectsChain(0)
  /\ fxhist = FxHistInit
  /\ clock = 0
  /\ node = NewNode(0)
  /\ nhist = NHistInit
  /\ granular = NewEngine
  /\ ghist = GHistInit
  /\ LoopInit

\* hueToFrequency snaps a frequency to the profile's scale.
PSnap(profile, hz) ==
  /\ tone.op = "new"
  /\ tone' = [op |-> "snap", profile |-> profile, first |-> hz, hz |-> hz,
              out |-> snapToScale(hz, profile)]
  /\ UNCHANGED <<window, trig, nodeVars, granularVars, loopVars, fxVars, analyzerVars>>

\* The snapped frequency is snapped again.
PSnapAgain ==
  /\ tone.op = "snap"
  /\ tone' = [tone EXCEPT !.op = "resnap", !.hz = tone.out,
                          !.out = snapToScale(tone.out, tone.profile)]
  /\ UNCHANGED <<window, trig, nodeVars, granularVars, loopVars, fxVars, analyzerVars>>

\* binToFrequency / brightnessToFrequency at a brightness.
PBrightness(profile, halves) ==
  /\ tone.op = "new"
  /\ tone' = [op |-> "brightness", profile |-> profile, brightness |-> halves,
              out |-> brightnessToFrequency(halves, profile),
              below |-> brightnessToFrequency(halves, profile)]
  /\ UNCHANGED <<window, trig, nodeVars, granularVars, loopVars, fxVars, analyzerVars>>

\* The same at a higher brightness.
PBrighter(d) ==
  /\ tone.op = "brightness"
  /\ tone.brightness + d \in Brightnesses
  /\ tone' = [tone EXCEPT !.brightness = @ + d, !.below = tone.out,
                          !.out = brightnessToFrequency(tone.brightness + d, tone.profile)]
  /\ UNCHANGED <<window, trig, nodeVars, granularVars, loopVars, fxVars, analyzerVars>>

PNext ==
  \/ \E profile \in PitchProfiles, hz \in PitchInputs : PSnap(profile, hz)
  \/ PSnapAgain
  \/ \E profile \in PitchProfiles, halves \in Brightnesses : PBrightness(profile, halves)
  \/ \E d \in BrightnessSteps : PBrighter(d)

SpecPitch == PInit /\ [][PNext]_vars

\* C21: snapToScale is idempotent: snapping a snapped frequency returns it.
C21_SnapIdempotent ==
  tone.op = "resnap" => FracEq(tone.out, tone.hz)

\* 219 Hz in A major: just under the octave, snapped down to the seventh
\* (110 * 15/8 = 206.25 Hz), and 206.25 Hz snapped again stays.
C21_Witness ==
  /\ tone.op = "resnap"
  /\ tone.profile.rootHz = 110 /\ tone.profile.scale = "major"
  /\ tone.first = Frac(219, 1)
  /\ FracEq(tone.hz, Frac(825, 4)) /\ FracEq(tone.out, Frac(825, 4))

\* C22: brightnessToFrequency(0, profile) is the root; the frequency at a higher
\* brightness is never below the one at a lower brightness; the frequency lies
\* in the octave numbered floor(brightness / 85) above the root, so the octave
\* steps up at 85 and at 170.
C22_BrightnessMonotone ==
  tone.op = "brightness" =>
    LET octave == tone.brightness \div OctaveSpan
        root == tone.profile.rootHz
    IN /\ tone.brightness = 0 => FracEq(tone.out, Frac(root, 1))
       /\ ~FracLess(tone.out, tone.below)
       /\ ~FracLess(tone.out, Frac(root * Pow2(octave), 1))
       /\ FracLess(tone.out, Frac(root * Pow2(octave + 1), 1))

\* One half below 85 the frequency is the scale's last degree (A major: 15/8 of
\* 110 Hz); at 85 it is the root an octave up.
C22_Witness ==
  /\ tone.op = "brightness"
  /\ tone.profile.rootHz = 110 /\ tone.profile.scale = "major"
  /\ tone.brightness = OctaveSpan
  /\ FracEq(tone.below, Frac(825, 4))
  /\ FracEq(tone.out, Frac(220, 1))


\* ------------------------------------------------- the scan window, by input
\* Images as loadImage hands them to the sampler: uniform gray (128), and
\* striped ones.  Layer rectangles inside the image, larger than it, one pixel
\* wide, tall enough for two rows per bin, and wholly outside it; the scan head
\* starts at any of a few positions, inside the image or not, and travels pixel
\* by pixel in the layer's direction.
MaxScanSteps == 4

Gray == [r |-> 128, g |-> 128, b |-> 128]

SamplerSizes == {<<8, 8>>, <<5, 30>>}

SamplerImages ==
  {Striped(size, Gray, b, w) :
     size \in SamplerSizes,
     b \in {Gray, [r |-> 0, g |-> 0, b |-> 0], [r |-> 200, g |-> 30, b |-> 30]},
     w \in {1, 7}}

LayerRects ==
  {[x |-> 0, y |-> 0, width |-> 8, height |-> 8],
   [x |-> 2, y |-> 1, width |-> 1, height |-> 1],
   [x |-> 1, y |-> 3, width |-> 30, height |-> 50],
   [x |-> 0, y |-> 0, width |-> 50, height |-> 24],
   [x |-> 40, y |-> 0 - 20, width |-> 6, height |-> 12]}

ScanLayers ==
  {[x |-> rect.x, y |-> rect.y, width |-> rect.width, height |-> rect.height,
    scanDirection |-> dir] : rect \in LayerRects, dir \in ScanDirections}

ScanStarts == {<<0, 0>>, <<3, 6>>, <<7, 29>>, <<0 - 9, 42>>}

WInit ==
  /\ image \in SamplerImages
  /\ window = NoWindow
  /\ trig = NoTrigger
  /\ tone = NoPitch
  /\ analysed = NotAnalysed
  /\ effects = NewEffectsChain(0)
  /\ fxhist = FxHistInit
  /\ clock = 0
  /\ node = NewNode(0)
  /\ nhist = NHistInit
  /\ granular = NewEngine
  /\ ghist = GHistInit
  /\ LoopInit

\* The first frame of a layer: sampleWindow at the scan head.
WSample(layer, at) ==
  /\ window.op = "new"
  /\ window' = [op |-> "sample", layer |-> layer, absX |-> at[1], absY |-> at[2],
                steps |-> 0, sample |-> sampleWindow(image, layer, at[1], at[2])]
  /\ UNCHANGED <<tone, trig, nodeVars, granularVars, loopVars, fxVars, analyzerVars>>

\* A later frame: the scan head one pixel further along the layer's direction.
WAdvance ==
  /\ window.op = "sample"
  /\ window.steps < MaxScanSteps
  /\ LET dir == window.layer.scanDirection
         absX == window.absX + (IF dir = "vertical" THEN 0 ELSE 1)
         absY == window.absY + (IF dir = "horizontal" THEN 0
                                ELSE IF dir = "diagonal-up" THEN 0 - 1 ELSE 1)
     IN window' = [window EXCEPT !.absX = absX, !.absY = absY, !.steps = @ + 1,
                                 !.sample = sampleWindow(image, window.layer, absX, absY)]
  /\ UNCHANGED <<tone, trig, nodeVars, granularVars, loopVars, fxVars, analyzerVars>>

WNext ==
  \/ \E layer \in ScanLayers, at \in ScanStarts : WSample(layer, at)
  \/ WAdvance

SpecWindow == WInit /\ [][WNext]_vars

UniformGray == \A i \in 1..Len(image.data) : image.data[i] = Gray

\* C23: on a uniform gray image (128) sampleWindow returns rowVariance 0 in all
\* 24 bins and one spectrumBins value in all 24 bins, for every layer
\* rectangle, scan direction and scan-head position.
C23_UniformGrayFlatWindow ==
  window.op = "sample" /\ UniformGray =>
    /\ \A i \in Bins : window.sample.rowVariance[i] = 0
    /\ \A i, j \in Bins : window.sample.spectrumBins[i] = window.sample.spectrumBins[j]

\* A diagonal scan over a uniform gray image with a rectangle larger than the
\* image, a few frames in: the window is clamped at the image's edges, the
\* bins are flat and not silent.
C23_Witness ==
  /\ window.op = "sample" /\ UniformGray
  /\ window.layer.scanDirection = "diagonal-up"
  /\ window.layer.width = 30 /\ window.steps = 3
  /\ \A i \in Bins : window.sample.rowVariance[i] = 0
  /\ \A i \in Bins : window.sample.spectrumBins[i] = window.sample.spectrumBins[1]
  /\ window.sample.spectrumBins[1] > 0

\* On striped images the bins do differ and the variance is not 0.
C23_StripedIsNotFlat ==
  /\ window.op = "sample" /\ ~UniformGray
  /\ \E i \in Bins : window.sample.rowVariance[i] > 0
  /\ \E i, j \in Bins : window.sample.spectrumBins[i] # window.sample.spectrumBins[j]


\* ------------------------------------------------ the node map and the store
\* C24: every synthesizer node that is still connected belongs to a layer of
\* the store, after any sequence of layer creation, layer removal, image load,
\* image clear and save-file load.
C24_ConnectedNodesHaveLayers ==
  \A id \in DOMAIN audioNodeMap :
    audioNodeMap[id].connected => id \in LayerIdsOf(store.layers)

\* C25: after a stop or pause the engine master gain is at 0, and it stays at 0
\* until the next play, whatever else happens in between (master-volume
\* changes, layer edits, further frames).  Stated for the step that follows the
\* stop or pause.
C25_MasterSilentUntilPlay ==
  [][/\ lhist'.op \in {"pause", "stop"} => HeldAt(engineMaster', 0)
     /\ (lhist.op \in {"pause", "stop"} /\ lhist'.op # "play")
          => HeldAt(engineMaster', 0)]_vars


\* ------------------------------------- claims on the synthesizer, continued
\* The archetype _initSampleRouting decides by.
RoutingArchetype(n) ==
  IF n.currentParams = NoParams THEN "tonal" ELSE n.currentParams.archetype

UsesGranular(n) == RoutingArchetype(n) \in {"textural", "chromatic_noise"}

\* The granular engine as reset() leaves it.
EngineAtRest(e) == e.grainTimer = 0 /\ \A i \in 1..MAX_GRAINS : e.slots[i] = IdleSlot

\* The sample of node n goes through the granular engine alone, or through
\* one looping source alone.
SampleRouted(n) ==
  IF UsesGranular(n)
  THEN /\ ~n.sampleSource /\ LoopSources(n) = 0
       /\ n.hasGranular /\ n.granular.buffer /\ EngineAtRest(n.granular)
  ELSE /\ n.sampleSource /\ n.sourcePlaying /\ LoopSources(n) = 1
       /\ n.hasGranular => EngineAtRest(n.granular)

\* C26: after every setModeParams or setSampleBuffer call made with a sample
\* buffer loaded, the sample is routed through the granular engine if the
\* archetype is textural or chromatic_noise and through a single looping source
\* otherwise: in the granular case no looping source exists, in the loop case
\* the granular engine is reset, and no updateFromPixel ticks it while the loop
\* is the route; at most one looping source exists at any time.
C26_SampleRoutedOneWay ==
  [][/\ (nhist'.op \in {"setModeParams", "setSampleBuffer"} /\ node'.sampleBuffer)
          => SampleRouted(node')
     /\ LoopSources(node') <= 1
     /\ (nhist'.op = "updateFromPixel" /\ node.sampleBuffer /\ ~UsesGranular(node))
          => node'.granular = node.granular]_vars

\* A mode switch to the textural archetype on a node whose sample was playing
\* through a looping source: the source is gone, the granular engine holds the
\* buffer.
C26_Witness ==
  /\ nhist.op = "setModeParams" /\ nhist.wasSample /\ nhist.steps >= 2
  /\ node.sampleBuffer /\ node.currentParams.archetype = "textural"
  /\ ~node.sampleSource /\ LoopSources(node) = 0
  /\ node.hasGranular /\ node.granular.buffer

\* The oscillator path is shut: the 24 bin gains, the oscillators' mix gate and
\* the mangle send and return are 0 with nothing scheduled.
OscillatorPathShut(n) ==
  /\ \A i \in Bins : HeldAt(n.specGains[i], 0)
  /\ HeldAt(n.specMixGate, 0)
  /\ HeldAt(n.mangleSend, 0)
  /\ HeldAt(n.mangleReturn, 0)

\* The sample path is shut: both sample-path gains are 0.
SamplePathShut(n) == HeldAt(n.sampleGain, 0) /\ HeldAt(n.sampleModeGain, 0)

PathsExclusive(n) ==
  IF n.sampleBuffer THEN OscillatorPathShut(n) ELSE SamplePathShut(n)

\* C27 as stated: after every unmuted updateFromPixel with a mode set, if a
\* sample is loaded the 24 oscillator bin gains and the oscillator mix gates are
\* 0, and if no sample is loaded both sample-path gains are 0.
C27_PathsExclusiveAlways ==
  (nhist.op = "updateFromPixel" /\ ~nhist.muted /\ node.currentParams # NoParams)
    => PathsExclusive(node)

\* C27, on a node that has not been disconnected: after an unmuted
\* updateFromPixel with a mode set, the oscillator path is shut if a sample is
\* loaded and the sample path is shut if none is.
C27_PathsExclusiveWhileConnected ==
  (nhist.op = "updateFromPixel" /\ ~nhist.muted /\ nhist.wasConnected
     /\ node.currentParams # NoParams)
    => PathsExclusive(node)

\* An update in sample mode of a node whose oscillator bins were in a release
\* envelope: the bins are shut, the sample gain is open.
C27_Witness ==
  /\ nhist.op = "updateFromPixel" /\ ~nhist.muted /\ nhist.wasConnected
  /\ nhist.wasRamping
  /\ node.currentParams # NoParams /\ node.sampleBuffer
  /\ OscillatorPathShut(node)
  /\ ~HeldAt(node.sampleGain, 0)


\* ------------------------------------------------ the rhythmic trigger, watched
\* A node in the rhythmic archetype, with or without a sample, receives mode
\* pushes and frames while the audio clock advances.  trig records each frame's
\* sample and dt, its
\* firing (a firing is an updateFromPixel that moves lastTriggerTime), the time
\* of the firing before it, and whether setModeParams was called in between.
MaxTrigOps == 4

\* A sample with few edges, high contrast and full bins: a beat without an edge.
SampleBeat ==
  [SampleBright EXCEPT !.edgeDensity = 100, !.contrast = 700]

TriggerSamples == {SampleDark, SampleBright, SampleBeat, SampleMid}
TriggerClockSteps == {2, 8}
TriggerDts == {0, 4}

TInit ==
  /\ clock \in ClockStarts
  /\ node = NewNode(clock)
  /\ nhist = NHistInit
  /\ granular = NewEngine
  /\ ghist = GHistInit
  /\ LoopInit
  /\ FxIdle

TSetModeParams ==
  /\ trig.steps < MaxTrigOps
  /\ node' = SetModeParams(node, ModeParams("rhythmic"), clock)
  /\ trig' = [trig EXCEPT !.op = "setModeParams", !.steps = @ + 1, !.fired = FALSE,
                          !.resetSince = TRUE]
  /\ UNCHANGED <<nhist, clock, tone, window, granularVars, loopVars, fxVars, analyzerVars>>

TUpdateFromPixel(sample, volume, dt, rnd) ==
  /\ trig.steps < MaxTrigOps
  /\ node' = UpdateFromPixel(node, sample, volume, FALSE, dt, clock, rnd)
  /\ LET fired == node'.lastTriggerTime # node.lastTriggerTime
     IN trig' = [op |-> "updateFromPixel", steps |-> trig.steps + 1, fired |-> fired,
                 lastFire |-> IF fired THEN clock ELSE trig.lastFire,
                 prevFire |-> IF fired THEN trig.lastFire ELSE trig.prevFire,
                 resetSince |-> IF fired THEN FALSE ELSE trig.resetSince,
                 resetBefore |-> trig.resetSince,
                 edgeDensity |-> sample.edgeDensity, contrast |-> sample.contrast,
                 spectrumBins |-> sample.spectrumBins, dt |-> dt]
  /\ UNCHANGED <<nhist, clock, tone, window, granularVars, loopVars, fxVars, analyzerVars>>

TSetSampleBuffer ==
  /\ trig.steps < MaxTrigOps
  /\ ~node.sampleBuffer
  /\ node' = SetSampleBuffer(node, clock)
  /\ trig' = [trig EXCEPT !.op = "setSampleBuffer", !.steps = @ + 1, !.fired = FALSE]
  /\ UNCHANGED <<nhist, clock, tone, window, granularVars, loopVars, fxVars, analyzerVars>>

TAdvance(d) ==
  /\ trig.steps < MaxTrigOps
  /\ clock' = clock + d
  /\ trig' = [trig EXCEPT !.op = "advance", !.steps = @ + 1, !.fired = FALSE]
  /\ UNCHANGED <<node, nhist, tone, window, granularVars, loopVars, fxVars, analyzerVars>>

TNext ==
  \/ TSetModeParams
  \/ \E sample \in TriggerSamples, volume \in Volumes, dt \in TriggerDts :
        TUpdateFromPixel(sample, volume, dt, 999)
  \/ TSetSampleBuffer
  \/ \E d \in TriggerClockSteps : TAdvance(d)

SpecTrigger == TInit /\ [][TNext]_vars

\* The frame that fired had an edge or a beat.
FiredOnEdgeOrBeat ==
  \/ trig.edgeDensity > node.currentParams.triggerThreshold
  \/ MeanBinAmplitude(node) > GainOne \div 20 /\ trig.contrast > 150

\* now - (the previous firing) > releaseTime * 0.6
SpacedFromPrevious == (clock - trig.prevFire) * 10 > node.currentParams.releaseTime * 6

\* C28 as stated: a trigger fires only on a frame where edgeDensity >
\* triggerThreshold or (mean bin amplitude > 0.05 and contrast > 0.15), and any
\* two consecutive firings are more than releaseTime * 0.6 seconds apart.
C28_TriggersAlwaysSpaced ==
  trig.fired => FiredOnEdgeOrBeat /\ (trig.prevFire >= 0 => SpacedFromPrevious)

\* C28, between mode pushes: a trigger fires only on a frame with an edge or a
\* beat, and two consecutive firings with no setModeParams call between them
\* are more than releaseTime * 0.6 seconds apart.
C28_TriggersSpacedWithinAMode ==
  trig.fired =>
    /\ FiredOnEdgeOrBeat
    /\ (trig.prevFire >= 0 /\ ~trig.resetBefore) => SpacedFromPrevious

\* A second firing 0.2 s after the first, in the same mode, on a beat.
C28_Witness ==
  /\ trig.fired /\ trig.prevFire >= 0 /\ ~trig.resetBefore
  /\ clock - trig.prevFire = 8
  /\ trig.edgeDensity <= node.currentParams.triggerThreshold
  /\ FiredOnEdgeOrBeat

\* Bin i of the frame just made went from its old value toward the sample's
\* value, by no more than limit, and not past it.
MovedToward(i, limit) ==
  LET was == node.smoothedBins[i]
      is == node'.smoothedBins[i]
      target == trig'.spectrumBins[i]
  IN /\ Abs(is - was) <= limit
     /\ was <= target => was <= is /\ is <= target
     /\ was >= target => target <= is /\ is <= was

\* C29: on every unmuted updateFromPixel with dt >= 0 each smoothed bin moves
\* toward the sample's bin value by at most spectralSmoothing * dt and never
\* past it; setModeParams sets the smoothed bins to 0, so the first update after
\* it leaves every bin at most spectralSmoothing * dt.
C29_BinsSlewLimited ==
  [][/\ trig'.op = "setModeParams" => \A i \in Bins : node'.smoothedBins[i] = 0
     /\ trig'.op = "updateFromPixel" =>
          IF node.currentParams = NoParams
          THEN node'.smoothedBins = node.smoothedBins
          ELSE LET limit == MaxDelta(node.currentParams.spectralSmoothing, trig'.dt)
               IN /\ \A i \in Bins : MovedToward(i, limit)
                  /\ trig.op = "setModeParams"
                       => \A i \in Bins : node'.smoothedBins[i] <= limit]_vars

\* A frame after which the lower bins are on their way (0.3 of the way to 0.5
\* in one frame of 0.1 s at 3 per second) and the upper bins have arrived at
\* the sample's value, 0.125.
C29_Witness ==
  /\ trig.op = "updateFromPixel" /\ node.currentParams # NoParams /\ trig.dt = 4
  /\ trig.spectrumBins[1] = GainOne \div 2
  /\ node.smoothedBins[1] = MaxDelta(node.currentParams.spectralSmoothing, 4)
  /\ node.smoothedBins[1] < trig.spectrumBins[1]
  /\ node.smoothedBins[NUM_BINS] = trig.spectrumBins[NUM_BINS]
  /\ node.smoothedBins[NUM_BINS] > 0


\* ------------------------------------------- claims on the effects, continued
\* The (wet, dry) targets of a stage are (w, d).
StageTargets(wet, dry, w, d) == Heading(wet) = w /\ Heading(dry) = d

\* The targets of a stage that is switched: (1, 0) enabled, (0, 1) disabled.
Switched(wet, dry, enabled) ==
  IF enabled THEN StageTargets(wet, dry, PerMille, 0) ELSE StageTargets(wet, dry, 0, PerMille)

\* The targets of a stage that is mixed: (mix, 1 - mix) enabled, (0, 1) disabled.
Mixed(wet, dry, enabled, mix) ==
  IF enabled THEN StageTargets(wet, dry, mix, PerMille - mix)
  ELSE StageTargets(wet, dry, 0, PerMille)

\* C30 as stated: for each of distortion, EQ, flanger and chorus, after
\* applyEffects the (wet, dry) targets of the stage are (1, 0) when the effect
\* is enabled and (0, 1) when it is disabled.
C30_StagesSwitched ==
  fxhist.op = "applyEffects" =>
    /\ Switched(effects.distortionWet, effects.distortionBypass, LastApplied.distortionEnabled)
    /\ Switched(effects.eqWet, effects.eqBypass, LastApplied.eqEnabled)
    /\ Switched(effects.flangerWet, effects.flangerBypass, LastApplied.flangerEnabled)
    /\ Switched(effects.chorusWet, effects.chorusBypass, LastApplied.chorusEnabled)

\* C30: after applyEffects the (wet, dry) targets of distortion and EQ are
\* (1, 0) when the effect is enabled and (0, 1) when it is disabled; those of
\* flanger and chorus are (mix, 1 - mix) when enabled and (0, 1) when disabled.
C30_StagesSwitchedOrMixed ==
  fxhist.op = "applyEffects" =>
    /\ Switched(effects.distortionWet, effects.distortionBypass, LastApplied.distortionEnabled)
    /\ Switched(effects.eqWet, effects.eqBypass, LastApplied.eqEnabled)
    /\ Mixed(effects.flangerWet, effects.flangerBypass, LastApplied.flangerEnabled,
             LastApplied.flangerMix)
    /\ Mixed(effects.chorusWet, effects.chorusBypass, LastApplied.chorusEnabled,
             LastApplied.chorusMix)

\* Every effect enabled after a call that had them all disabled: distortion and
\* EQ head for (1, 0), the flanger for (0.3, 0.7), the chorus for (0.2, 0.8).
C30_Witness ==
  /\ fxhist.op = "applyEffects" /\ Len(fxhist.log) >= 2
  /\ LastApplied = AllOn /\ fxhist.log[Len(fxhist.log) - 1] = DefaultEffects
  /\ StageTargets(effects.distortionWet, effects.distortionBypass, PerMille, 0)
  /\ StageTargets(effects.eqWet, effects.eqBypass, PerMille, 0)
  /\ StageTargets(effects.flangerWet, effects.flangerBypass, 300, 700)
  /\ StageTargets(effects.chorusWet, effects.chorusBypass, 200, 800)


\* ------------------------------------------- the slot pool, completion delivered
\* The pool under ticks of one grain or of a burst that saturates it, with every
\* completion callback delivered in the end.  onended of different slots touch
\* different slots and commute, so the callbacks of the slots above
\* the first are delivered lowest slot first; those of the first slot, and the
\* callbacks of one slot (a stopped source's and its successor's), come in any
\* order.
LiveDensities == {40}
MaxLiveTicks == 2

Deliverable(g) ==
  \/ g.slot = 1
  \/ \A h \in granular.grains : h.slot > 1 => g.slot <= h.slot

LTick(d, dt) ==
  /\ ghist.ticks < MaxLiveTicks
  /\ granular' = Tick(granular, d, dt)
  /\ ghist' = [ghist EXCEPT !.ticks = @ + 1]
  /\ UNCHANGED <<nodeVars, loopVars, fxVars, analyzerVars, pureVars>>

LOnEnded(g) ==
  /\ Deliverable(g)
  /\ granular' = OnEnded(granular, g)
  /\ UNCHANGED <<ghist, nodeVars, loopVars, fxVars, analyzerVars, pureVars>>

Delivery == \E g \in granular.grains : LOnEnded(g)

LiveNext ==
  \/ \E d \in LiveDensities, dt \in TickDts : LTick(d, dt)
  \/ GSetBuffer
  \/ GReset
  \/ GClearBuffer
  \/ GDisconnect
  \/ Delivery

\* Fairness: the event loop goes on delivering the pending completion callbacks.
SpecGranularLive == GInit /\ [][LiveNext]_vars /\ WF_vars(Delivery)

\* The slots the recovery is followed on: the first two and the last.
WatchedSlots == {1, 2, MAX_GRAINS}

\* C31: every grain slot that becomes busy eventually returns to idle, given
\* that every started grain's completion callback is eventually delivered.
C31_BusySlotsRecover ==
  \A s \in WatchedSlots : granular.slots[s].busy ~> ~granular.slots[s].busy

\* The pool is saturated: every slot is busy and a tick has just dropped grains;
\* and a later state in which a reset released a busy pool.
C31_Witness ==
  /\ FreeCount(granular) = 0
  /\ ghist.resets = 1
  /\ \E g \in granular.grains : ~g.playing


\* ------------------------------------------ claims on the synthesizer, continued
\* hasSample of updateFromPixel
HasSample(n) == n.sampleSource \/ (n.hasGranular /\ n.sampleBuffer)

\* The last call was an unmuted updateFromPixel on a node without a sample.
SynthFrame == nhist.op = "updateFromPixel" /\ ~nhist.muted /\ ~HasSample(node)

\* The oscillator mix goes through the mangle side-chain only.
MangleRoute(n) == HeldAt(n.specMixGate, 0) /\ Heading(n.mangleSend) > 0

\* The oscillator mix goes directly to the layer master only.
DirectRoute(n) ==
  /\ Heading(n.specMixGate) > 0
  /\ HeldAt(n.mangleSend, 0)
  /\ HeldAt(n.mangleReturn, 0)

OneRoute(n) ==
  IF n.currentParams.archetype = "chromatic_noise" THEN MangleRoute(n) ELSE DirectRoute(n)

\* C32 as stated: after every unmuted synth-mode updateFromPixel the oscillator
\* mix has the one route of its archetype.
C32_OneRouteAfterEverySynthFrame == SynthFrame => OneRoute(node)

\* C32: after every unmuted synth-mode updateFromPixel on a node not yet
\* disconnected, the oscillator mix has exactly one route: for chromatic_noise
\* the mangle send is open and the direct gate is 0, for every other archetype
\* the direct gate is open and the mangle send and return are 0.
C32_OneRouteWhileConnected == (SynthFrame /\ nhist.wasConnected) => OneRoute(node)

\* A chromatic_noise frame on a connected node: send 1, return 0.8, gate 0.
C32_Witness ==
  /\ SynthFrame /\ nhist.wasConnected
  /\ node.currentParams.archetype = "chromatic_noise"
  /\ HeldAt(node.specMixGate, 0)
  /\ HeldAt(node.mangleSend, GainOne)
  /\ HeldAt(node.mangleReturn, Mul(GainOne, 800))


\* ----------------------------------------------------- tuneParams, the sub mode
\* An image profile as far as the sub mode reads it: brightness 0..255, warmth
\* and contrast in thousandths.
SubBrightnesses == {20, 128, 240}
SubWarmths == {100, 500, 900}
SubProfiles ==
  {[brightness |-> b, warmth |-> w, contrast |-> 400] :
     b \in SubBrightnesses, w \in SubWarmths}

\* depth = (1 - brightness / 255) * 0.5 + (1 - warmth) * 0.3, times 8 * 255000
DepthTimes8(profile) == 4000 * (255 - profile.brightness) + 612 * (PerMille - profile.warmth)

\* Math.max(2, Math.floor(3 + depth * 8))
ActiveBins(profile) == Max(2, 3 + DepthTimes8(profile) \div (255 * PerMille))

\* The steepness 3 + depth * 3, rounded up to a whole number.
SteepnessUp(profile) ==
  3 + (3 * DepthTimes8(profile) + 8 * 255 * PerMille - 1) \div (8 * 255 * PerMille)

\* (1 - i / 24) ^ k in thousandths, for the zero-based bin i and a whole k.
RECURSIVE LowCurveOf(_, _)
LowCurveOf(i, k) ==
  IF k = 0 THEN PerMille ELSE (LowCurveOf(i, k - 1) * (NUM_BINS - i)) \div NUM_BINS

\* tuneParams(sub, profile): makeLowCurve(3 + depth * 3) with the bins from
\* activeBins on set to 0.  The base 1 - i / 24 is at most 1, so the weight at
\* the whole steepness above is a lower bound of Math.pow at the real one.
TuneParamsSub(profile) ==
  [ModeParams("sub") EXCEPT
     !.binWeightCurve =
        [i \in Bins |-> IF i - 1 >= ActiveBins(profile) THEN 0
                        ELSE LowCurveOf(i - 1, SteepnessUp(profile))],
     !.spectralSmoothing = 800 + 2 * (PerMille - profile.contrast),
     !.attackTime = SecUnits \div 5,
     !.releaseTime = (3 * SecUnits) \div 2,
     !.outputGain = 900]

MaxSubOps == 4

BSetModeParams(profile) ==
  /\ nhist.steps < MaxSubOps
  /\ node' = SetModeParams(node, TuneParamsSub(profile), clock)
  /\ nhist' = NHist("setModeParams", FALSE)
  /\ UNCHANGED <<clock, granularVars, loopVars, fxVars, analyzerVars, pureVars>>

BUpdateFromPixel(sample, volume, muted, dt) ==
  /\ nhist.steps < MaxSubOps
  /\ node' = UpdateFromPixel(node, sample, volume, muted, dt, clock, 999)
  /\ nhist' = NHist("updateFromPixel", muted)
  /\ UNCHANGED <<clock, granularVars, loopVars, fxVars, analyzerVars, pureVars>>

BNext ==
  \/ \E profile \in SubProfiles : BSetModeParams(profile)
  \/ \E sample \in Samples, muted \in BOOLEAN :
        BUpdateFromPixel(sample, 700, muted, 4)
  \/ \E d \in ClockSteps : NAdvance(d)

SpecSub == NInit /\ [][BNext]_vars

\* C33: in the sub archetype, for every image profile, every bin with index
\* >= 6 receives gain target 0 (only the lowest 6 bins can be active).
C33_SubBinsFromSixSilent ==
  (SynthFrame /\ nhist.wasConnected /\ node.currentParams.archetype = "sub") =>
     \A i \in Bins : i - 1 >= 6 => Heading(node.specGains[i]) = 0


\* ----------------------------------------------- claims on the delay and reverb
\* Every value scheduled on the parameter is x.
AlwaysAt(p, x) == \A k \in 1..Len(p) : p[k].v = x

\* C34 as stated: for delay and reverb, applyEffects never moves the dry gain
\* target away from 1.
C34_DryStaysAtOne ==
  fxhist.op = "applyEffects" =>
    /\ Heading(effects.delayDry) = PerMille
    /\ Heading(effects.reverbDry) = PerMille

\* C34: applyEffects never moves the delay's dry gain target away from 1; the
\* reverb's dry gain target is 1 while reverb is disabled and 1 - reverbMix / 2
\* while it is enabled.
C34_DelayDryAtOneReverbDryByMix ==
  /\ AlwaysAt(effects.delayDry, PerMille)
  /\ fxhist.op = "applyEffects" =>
       Heading(effects.reverbDry) =
         IF LastApplied.reverbEnabled THEN PerMille - LastApplied.reverbMix \div 2
         ELSE PerMille

\* Delay and reverb enabled after a call that had them disabled: delay wet heads
\* for its mix 0.7 with the dry gain at 1, the reverb dry gain heads for 0.7.
C34_Witness ==
  /\ fxhist.op = "applyEffects" /\ Len(fxhist.log) >= 2
  /\ LastApplied = AllOn /\ ~fxhist.log[Len(fxhist.log) - 1].delayEnabled
  /\ Heading(effects.delayWet) = 700
  /\ Heading(effects.delayDry) = PerMille
  /\ Heading(effects.reverbWet) = 600
  /\ Heading(effects.reverbDry) = 700


\* ------------------------------------------------- claims on the idle frame
\* The step is a whole frame taken while isPlaying is false, or no pixel data is
\* cached, or there are no layers.
IdleFrameStep ==
  /\ lhist'.op = "frame" /\ lhist'.frames = lhist.frames + 1
  /\ ~(store.isPlaying /\ store.cachedPixelData /\ Len(store.layers) > 0)

\* The node is as it was but for the tuning a profile push gives it.
OnlyRetuned(before, after) == [after EXCEPT !.tuning = before.tuning] = before

\* C35: while isPlaying is false (or no pixel data is cached, or there are no
\* layers), a frame changes no layer record in the store and calls neither
\* setModeParams nor updateFromPixel on any synthesizer.
C35_IdleFrameLeavesLayersAndNodes ==
  [][IdleFrameStep =>
       /\ store' = store
       /\ layerModeCache' \in {layerModeCache, EmptyMap}
       /\ DOMAIN audioNodeMap' = DOMAIN audioNodeMap
       /\ \A id \in DOMAIN audioNodeMap : OnlyRetuned(audioNodeMap[id], audioNodeMap'[id])
       /\ lhist'.pushed = {} /\ lhist'.processed = {}]_vars

\* A frame has just run with layers, nodes and pixel data in place and playback
\* off, and found a profile to push.
C35_Witness ==
  /\ lhist.op = "frame"
  /\ ~store.isPlaying /\ store.cachedPixelData /\ Len(store.layers) > 0
  /\ \E i \in 1..Len(store.layers) : store.layers[i].id \in DOMAIN audioNodeMap
  /\ lhist.detected
  /\ lhist.processed = {}


\* -------------------------------------------- claims on the disconnected node
\* The step is an updateFromPixel call on a node that was disconnected before.
UpdateAfterDisconnect ==
  /\ nhist'.op = "updateFromPixel" /\ nhist'.steps = nhist.steps + 1
  /\ ~node.connected

\* tick on the engine fires no grain and accumulates no time.
TickIdle(e) == \A d \in Densities, dt \in TickDts : Tick(e, d, dt) = e

ScanInRange(layer) ==
  /\ 0 <= layer.scanPos /\ layer.scanPos < PosOne
  /\ layer.scanDirection = "horizontal" =>
       (0 <= layer.scanX /\ layer.scanX < Max(layer.width, 1) * SecUnits)

\* The pixel is inside the layer's rectangle, its edges included.
InRect(layer, at) ==
  /\ layer.x <= at[1] /\ at[1] <= layer.x + layer.width
  /\ layer.y <= at[2] /\ at[2] <= layer.y + layer.height

C37_Wrapped ==
  /\ lhist.op = "frame"
  /\ \E i \in 1..Len(store.layers) :
        /\ store.layers[i].id \in lhist.processed
        /\ store.layers[i].scanDirection = "horizontal"
        /\ store.layers[i].width = 120
        /\ store.layers[i].scanSpeed = 500
        /\ store.layers[i].scanX = 47 * SecUnits


\* ------------------------------------------------ the bin gains, driven loud
\* Every archetype with its output gain as generated (0.8) or overridden to the
\* top of its range (1.5), a bin-weight curve overridden to twice full weight,
\* and layer volumes 0.7 and 1.
LoudGains == {800, 1500}
LoudVolumes == {700, PerMille}
LoudCurves == {"generated", "doubled"}
MaxBinOps == 3

LoudParams(a, gain, curve) ==
  [ModeParams(a) EXCEPT
     !.outputGain = gain,
     !.binWeightCurve = IF curve = "doubled" THEN [i \in Bins |-> 2 * PerMille] ELSE @]

CSetModeParams(a, gain, curve) ==
  /\ nhist.steps < MaxBinOps
  /\ node' = SetModeParams(node, LoudParams(a, gain, curve), clock)
  /\ nhist' = NHist("setModeParams", FALSE)
  /\ UNCHANGED <<clock, granularVars, loopVars, fxVars, analyzerVars, pureVars>>

CUpdateFromPixel(sample, volume, dt, rnd) ==
  /\ nhist.steps < MaxBinOps
  /\ node' = UpdateFromPixel(node, sample, volume, FALSE, dt, clock, rnd)
  /\ nhist' = NHist("updateFromPixel", FALSE)
  /\ UNCHANGED <<clock, granularVars, loopVars, fxVars, analyzerVars, pureVars>>

CAdvance(d) ==
  /\ nhist.steps < MaxBinOps
  /\ nhist.op # "advance"
  /\ NAdvance(d)

CNext ==
  \/ \E a \in Archetypes, gain \in LoudGains, curve \in LoudCurves :
        CSetModeParams(a, gain, curve)
  \/ \E volume \in LoudVolumes, dt \in FrameDts, rnd \in GrainRandoms :
        CUpdateFromPixel(SampleBright, volume, dt, rnd)
  \/ \E d \in ClockSteps : CAdvance(d)

SpecBins == NInit /\ [][CNext]_vars

\* C38: every oscillator bin gain target written by any archetype path is at
\* most 1/24, for any volume, output gain, bin-weight curve and parameter
\* overrides: no value scheduled on any of the 24 bin gains exceeds BIN_CEIL.
C38_BinTargetsUnderCeiling ==
  \A i \in Bins : \A k \in 1..Len(node.specGains[i]) : node.specGains[i][k].v <= BIN_CEIL

\* A synth frame of the tonal archetype at output gain 1.5 has just driven a bin
\* whose uncapped target is over the ceiling; the target written is 1/24.
C38_Witness ==
  /\ SynthFrame /\ node.currentParams.archetype = "tonal"
  /\ node.currentParams.outputGain = 1500
  /\ \E i \in Bins :
        /\ Mul(Mul(node.smoothedBins[i], node.currentParams.binWeightCurve[i]), 150)
             > BIN_CEIL
        /\ Heading(node.specGains[i]) = BIN_CEIL


\* ------------------------------------------------ where the window reads
\* The taps of all 24 bins of the window sampled last.
TapsRead ==
  [bin \in 0..(NUM_BINS - 1) |->
     WindowTaps(image, window.layer, window.absX, window.absY, bin)]

OutsideImage(x, y) == x < 0 \/ x >= image.width \/ y < 0 \/ y >= image.height

\* C39: for any layer rectangle, scan direction and scan-head coordinate, every
\* pixel that sampleWindow reads has x in [0, imageWidth - 1] and y in
\* [0, imageHeight - 1].
C39_ReadsInsideImage ==
  window.op = "sample" =>
    \A bin \in 0..(NUM_BINS - 1) : \A i \in 1..Len(TapsRead[bin]) :
      /\ TapsRead[bin][i].cx \in 0..(image.width - 1)
      /\ TapsRead[bin][i].cy \in 0..(image.height - 1)

\* A window sampled with both the rectangle and the scan head wholly outside the
\* image, left of it and below it: every tap lands on the image's edge.
C39_Witness ==
  /\ window.op = "sample"
  /\ window.layer.x >= image.width /\ window.layer.y + window.layer.height <= 0
  /\ OutsideImage(window.absX, window.absY) /\ window.absX < 0
  /\ window.absY >= image.height
  /\ \A bin \in 0..(NUM_BINS - 1) : \A i \in 1..Len(TapsRead[bin]) :
       TapsRead[bin][i].cx \in {0, image.width - 1}
         \/ TapsRead[bin][i].cy \in {0, image.height - 1}


\* ------------------------------------------- snapToScale, one loop test a step
\* The two while loops of snapToScale run one test of their condition per step.
\* The note is a double: doubling a finite note past the largest finite
\* magnitude gives -Infinity (only negative notes are doubled that far), which
\* is below every root and is its own double; 0 is its own double too.  turns
\* is the parity of the number of times a loop body has run.
FiniteMax == 1000000
NegInfinity == Frac(0 - 1, 0)

Doubled(note) ==
  IF note = NegInfinity \/ 2 * note[1] < (0 - FiniteMax) * note[2] THEN NegInfinity
  ELSE Frac(2 * note[1], note[2])

\* Frequencies that are not above 0.
FlatInputs == {Frac(0, 1), Frac(0 - 1, 1), Frac(0 - 440, 1)}

\* snapToScale(hz, profile) is entered: let note = hz
KCall(profile, hz) ==
  /\ tone.op = "new"
  /\ tone' = [op |-> "raise", profile |-> profile, hz |-> hz, note |-> hz, turns |-> 0]
  /\ UNCHANGED <<window, trig, nodeVars, granularVars, loopVars, fxVars, analyzerVars>>

\* while (note < profile.rootHz) note *= 2
KRaise ==
  /\ tone.op = "raise"
  /\ tone' = IF FracLess(tone.note, Frac(tone.profile.rootHz, 1))
             THEN [tone EXCEPT !.note = Doubled(@), !.turns = 1 - @]
             ELSE [tone EXCEPT !.op = "lower"]
  /\ UNCHANGED <<window, trig, nodeVars, granularVars, loopVars, fxVars, analyzerVars>>

\* while (note > profile.rootHz * 4) note /= 2, then the rest of the function
KLower ==
  /\ tone.op = "lower"
  /\ tone' = IF FracLess(Frac(4 * tone.profile.rootHz, 1), tone.note)
             THEN [tone EXCEPT !.note = Frac(@[1], 2 * @[2]), !.turns = 1 - @]
             ELSE [op |-> "done", profile |-> tone.profile, hz |-> tone.hz,
                   note |-> tone.note, turns |-> tone.turns,
                   out |-> LET octaveMult == OctaveMult(tone.note, tone.profile.rootHz)
                               best == NearestRatio(tone.note,
                                                    tone.profile.rootHz * octaveMult,
                                                    tone.profile.scaleRatios)
                           IN Frac(tone.profile.rootHz * octaveMult * best[1], best[2])]
  /\ UNCHANGED <<window, trig, nodeVars, granularVars, loopVars, fxVars, analyzerVars>>

KNext ==
  \/ \E profile \in PitchProfiles, hz \in PitchInputs \cup FlatInputs : KCall(profile, hz)
  \/ KRaise
  \/ KLower

\* A call that has been entered keeps running.
SpecSnap == PInit /\ [][KNext]_vars /\ WF_vars(KRaise) /\ WF_vars(KLower)

\* C40: snapToScale terminates for every finite input frequency hz, zero and
\* negative values included, and every profile with rootHz > 0: a call that
\* has been entered returns.
C40_SnapReturns ==
  tone.op \in {"raise", "lower"} ~> tone.op = "done"

\* A call with a frequency above 0 is running, or has returned.
PositiveCall(ops) ==
  tone.op \in ops /\ FracLess(Frac(0, 1), tone.hz)

\* A call with a frequency above 0 returns.
C40_PositiveReturns ==
  PositiveCall({"raise", "lower"}) ~> PositiveCall({"done"})

\* What it returns is the result of the all-at-once function.
C40_ReturnsTheSnap ==
  tone.op = "done" => tone.out = snapToScale(tone.hz, tone.profile)

\* The first loop at a note that doubling does not change.
C40_Stuck ==
  /\ tone.op = "raise"
  /\ FracLess(tone.note, Frac(tone.profile.rootHz, 1))
  /\ Doubled(tone.note) = tone.note

====
